---- MODULE Spec2Model ----
(***************************************************************************)
(* Model of the document navigation engine of "loss" (src/src/chunk.rs,    *)
(* src/src/document.rs): a sparse, line-aligned chunk cache over a         *)
(* seekable byte stream.                                                   *)
(*                                                                         *)
(* Bytes are small integers; NL stands for '\n'.  Strings are sequences of *)
(* bytes.  Byte positions are 0-based as in the source: the byte at        *)
(* position i of a string s is s[i + 1].  Option<T> is a sequence of       *)
(* length 0 (None) or 1 (Some).  A panic (failed assert!, unwrap() of      *)
(* None, unreachable!) is reported in the field "panic" of the result of   *)
(* the operator that models the function.                                  *)
(***************************************************************************)
EXTENDS Integers, Sequences, FiniteSets, TLC

(***************************************************************************)
(* Bounds of the model.                                                    *)
(***************************************************************************)
\* longest file explored, in bytes
MaxFileLen == 6
\* largest chunk size explored (the source uses 65536; the model scales it)
MaxChunkSize == 4
\* largest line count passed to a query
MaxLineCount == 3
\* longest search pattern
MaxPatternLen == 1
\* the longest line put on the canvas
MaxLineLen == 2

NL == 0
\* the bytes of a file: the newline and two letters
Bytes == {NL, 1, 2}
Letters == Bytes \ {NL}

None == << >>
Some(x) == << x >>
IsSome(o) == Len(o) = 1
Unwrap(o) == o[1]

Min(S) == CHOOSE x \in S : \A y \in S : x <= y
Max(S) == CHOOSE x \in S : \A y \in S : y <= x
MinOf(a, b) == IF a <= b THEN a ELSE b
\* usize::saturating_sub
SatSub(a, b) == IF a >= b THEN a - b ELSE 0

\* content[a..b] of the source: the bytes at positions a .. b-1
Slice(s, a, b) == SubSeq(s, a + 1, b)

\* str::find('\n') on s[cur..]: the position (in s) of the first newline at
\* or after cur, None when there is none
FindNL(s, cur) ==
  LET S == {i \in cur .. Len(s) - 1 : s[i + 1] = NL}
  IN IF S = {} THEN None ELSE Some(Min(S))

\* str::contains(pattern)
Contains(s, p) ==
  \E i \in 0 .. Len(s) - Len(p) : Slice(s, i, i + Len(p)) = p

RECURSIVE SumLenPlus1(_)
\* sum of (len + 1) over a sequence of rows
SumLenPlus1(rows) ==
  IF rows = << >> THEN 0 ELSE Len(Head(rows)) + 1 + SumLenPlus1(Tail(rows))

(***************************************************************************)
(* Chunk (src/src/chunk.rs)                                                *)
(***************************************************************************)
RECURSIVE BuildRows(_, _, _)
\* the while-let loop of build_chunk: one row per newline-terminated span
BuildRows(content, cur_index, rows) ==
  LET pos == FindNL(content, cur_index)
  IN IF IsSome(pos)
     THEN BuildRows(content, Unwrap(pos) + 1,
                    Append(rows, Slice(content, cur_index, Unwrap(pos))))
     ELSE [rows |-> rows, cur_index |-> cur_index]

\* a build_chunk that keeps the tail whatever drop_last says
build_chunk_keeping_tail(content, content_offset, drop_first, drop_last) ==
  LET first_line_break == FindNL(content, 0)
  IN IF drop_first /\ ~IsSome(first_line_break)
     THEN [panic |-> TRUE]
     ELSE
       LET cur0 == IF drop_first THEN Unwrap(first_line_break) + 1 ELSE 0
           loop == BuildRows(content, cur0, << >>)
           keep_tail == loop.cur_index < Len(content)
           rows == IF keep_tail
                   THEN Append(loop.rows,
                               Slice(content, loop.cur_index, Len(content)))
                   ELSE loop.rows
           cur_index == IF keep_tail THEN Len(content) ELSE loop.cur_index
       IN [panic |-> FALSE,
           chunk |-> [offset_begin |-> content_offset + cur0,
                      offset_end |-> content_offset + cur_index,
                      rows |-> rows]]

\* Chunk::build_chunk; first_line_break.unwrap() panics without a newline
build_chunk(content, content_offset, drop_first, drop_last) ==
  LET first_line_break == FindNL(content, 0)
  IN IF drop_first /\ ~IsSome(first_line_break)
     THEN [panic |-> TRUE]
     ELSE
       LET cur0 == IF drop_first THEN Unwrap(first_line_break) + 1 ELSE 0
           loop == BuildRows(content, cur0, << >>)
           keep_tail == ~drop_last /\ loop.cur_index < Len(content)
           rows == IF keep_tail
                   THEN Append(loop.rows,
                               Slice(content, loop.cur_index, Len(content)))
                   ELSE loop.rows
           cur_index == IF keep_tail THEN Len(content) ELSE loop.cur_index
       IN [panic |-> FALSE,
           chunk |-> [offset_begin |-> content_offset + cur0,
                      offset_end |-> content_offset + cur_index,
                      rows |-> rows]]

RECURSIVE LineIndexFrom(_, _, _, _)
\* the for loop of query_line_index; None stands for unreachable!()
LineIndexFrom(rows, index, current_line_offset_begin, offset) ==
  IF index >= Len(rows) THEN None
  ELSE IF offset <= current_line_offset_begin + Len(rows[index + 1])
       THEN Some(index)
       ELSE LineIndexFrom(rows, index + 1,
                          current_line_offset_begin + Len(rows[index + 1]) + 1,
                          offset)

\* Chunk::query_line_index; None when the assert! or unreachable!() fires
query_line_index(chunk, offset) ==
  IF ~(offset >= chunk.offset_begin /\ offset < chunk.offset_end)
  THEN None
  ELSE LineIndexFrom(chunk.rows, 0, chunk.offset_begin, offset)

\* Chunk::query_line_start_offset
query_line_start_offset(chunk, i) ==
  chunk.offset_begin + SumLenPlus1(SubSeq(chunk.rows, 1, i))

\* Chunk::query_line_index_exactly: query_line_index, and a contract
\* violation (None) unless offset is the start of that row
query_line_index_exactly(chunk, offset) ==
  LET index == query_line_index(chunk, offset)
  IN IF IsSome(index)
        /\ query_line_start_offset(chunk, Unwrap(index)) = offset
     THEN index
     ELSE None

(***************************************************************************)
(* Document (src/src/document.rs).  A document is a record                 *)
(*   [reader, chunks, log_timestamp_format, log_default_date, last_line,   *)
(*    document_size, default_chunk_size];                                  *)
(* reader is the content of the file.  The operators below return          *)
(*   [panic |-> BOOLEAN, doc |-> the document afterwards, ret |-> result]. *)
(***************************************************************************)
Ok(doc, ret) == [panic |-> FALSE, doc |-> doc, ret |-> ret]
Panic(doc) == [panic |-> TRUE, doc |-> doc, ret |-> None]

\* Document::last_line_start_offset
last_line_start_offset(doc) ==
  doc.document_size - Len(Unwrap(doc.last_line))

RECURSIVE ChunkIndexFrom(_, _, _)
\* the for loop of get_chunk_index_by_offset, index counted from 0
ChunkIndexFrom(chunks, index, offset) ==
  IF index >= Len(chunks) THEN None
  ELSE IF offset >= chunks[index + 1].offset_end
       THEN ChunkIndexFrom(chunks, index + 1, offset)
       ELSE IF offset >= chunks[index + 1].offset_begin
            THEN Some(index)
            ELSE None

\* Document::get_chunk_index_by_offset
get_chunk_index_by_offset(doc, offset) ==
  ChunkIndexFrom(doc.chunks, 0, offset)

RECURSIVE SlideBegin(_, _, _)
\* "avoid chunk overlap", first loop: offset_begin slides right over the
\* chunks it lies in or touches
SlideBegin(chunks, index, offset_begin) ==
  IF index >= Len(chunks) THEN offset_begin
  ELSE IF offset_begin < chunks[index + 1].offset_begin
       THEN offset_begin
       ELSE SlideBegin(chunks, index + 1, chunks[index + 1].offset_end)

RECURSIVE SlideEnd(_, _, _)
\* "avoid chunk overlap", second loop: offset_end slides left; index runs
\* from chunk_index_end down to 0
SlideEnd(chunks, index, offset_end) ==
  IF index < 0 THEN offset_end
  ELSE IF offset_end > chunks[index + 1].offset_end
       THEN offset_end
       ELSE SlideEnd(chunks, index - 1, chunks[index + 1].offset_begin)

\* "add into chunk list": the position of the new chunk
NewChunkIndex(chunks, new_chunk) ==
  LET S == {i \in 0 .. Len(chunks) - 1 :
              chunks[i + 1].offset_begin >= new_chunk.offset_begin}
  IN IF S = {} THEN Len(chunks) ELSE Min(S)

\* RemoveUntilIndex with the bug that no chunk inside the new one is removed
RemoveUntilIndexNoDrain(chunks, new_chunk_index, new_chunk) ==
  new_chunk_index

\* "add into chunk list": one past the last chunk, from new_chunk_index on,
\* that ends inside the new chunk
RemoveUntilIndex(chunks, new_chunk_index, new_chunk) ==
  LET S == {i \in new_chunk_index .. Len(chunks) - 1 :
              chunks[i + 1].offset_end <= new_chunk.offset_end}
  IN IF S = {} THEN new_chunk_index ELSE Max(S) + 1

\* a drain of every chunk from new_chunk_index on
DrainToEndInsert(chunks, new_chunk_index, remove_until_index, new_chunk) ==
  SubSeq(chunks, 1, new_chunk_index) \o << new_chunk >>

\* chunks.drain(new_chunk_index..remove_until_index) and
\* chunks.insert(new_chunk_index, new_chunk)
DrainInsert(chunks, new_chunk_index, remove_until_index, new_chunk) ==
  SubSeq(chunks, 1, new_chunk_index) \o << new_chunk >>
    \o SubSeq(chunks, remove_until_index + 1, Len(chunks))

\* DropFirst with the bug that the cut line at the front is never dropped
DropFirstNever(offset_begin) == FALSE

\* load_chunk: "drop first unless loading chunk starting from the first
\* byte"
DropFirst(offset_begin) == offset_begin > 0

\* PoppedLastLine with the bug that the final newline is not put back
PoppedLastLineNoNewline(rows, content) == rows[Len(rows)]

\* load_chunk, "handle last line": the row popped from the chunk, with the
\* newline the content ends with
PoppedLastLine(rows, content) ==
  IF content[Len(content)] = NL
  THEN Append(rows[Len(rows)], NL)
  ELSE rows[Len(rows)]

\* load_chunk, "add into chunk list": the chunks the new one covers are
\* drained and the new chunk takes their place; ret is its index
AddIntoChunkList(doc, new_chunk) ==
  LET new_chunk_index == NewChunkIndex(doc.chunks, new_chunk)
      remove_until_index ==
        RemoveUntilIndex(doc.chunks, new_chunk_index, new_chunk)
  IN Ok([doc EXCEPT !.chunks =
           DrainInsert(doc.chunks, new_chunk_index, remove_until_index,
                       new_chunk)],
        Some(new_chunk_index))

\* load_chunk, "handle last line": a chunk that covers the end of the file
\* gives its last row to last_line; a chunk left without rows is not kept
HandleLastLine(doc, content, cover_end, built_chunk) ==
  IF cover_end /\ built_chunk.rows = << >> THEN Panic(doc)
  ELSE
  LET last_line == PoppedLastLine(built_chunk.rows, content)
      new_chunk ==
        IF cover_end
        THEN [offset_begin |-> built_chunk.offset_begin,
              offset_end |-> built_chunk.offset_end - Len(last_line),
              rows |-> SubSeq(built_chunk.rows, 1,
                              Len(built_chunk.rows) - 1)]
        ELSE built_chunk
      doc1 == IF cover_end
              THEN [doc EXCEPT !.last_line = Some(last_line)]
              ELSE doc
  IN IF new_chunk.rows = << >> THEN Ok(doc1, None)
     ELSE AddIntoChunkList(doc1, new_chunk)

\* load_chunk once build_chunk has returned
ChunkBuilt(doc, content, cover_end, built) ==
  IF built.panic THEN Panic(doc)
  ELSE HandleLastLine(doc, content, cover_end, built.chunk)

\* load_chunk, "build chunk": the window read from the file, one byte to
\* the left of offset_begin, and the chunk built from it
ReadAndBuildChunk(doc, offset_begin, offset_end) ==
  LET content == Slice(doc.reader, offset_begin, offset_end)
      drop_first == DropFirst(offset_begin)
      cover_end == offset_end >= doc.document_size
  IN ChunkBuilt(doc, content, cover_end,
                build_chunk(content, offset_begin, drop_first, ~cover_end))

\* load_chunk, "avoid chunk overlap": both ends of the window slide off the
\* cached chunks; nothing is loaded when nothing is left
AvoidChunkOverlap(doc, offset_begin0, offset_end0) ==
  LET chunk_index_begin == get_chunk_index_by_offset(doc, offset_begin0)
      offset_begin ==
        IF IsSome(chunk_index_begin)
        THEN SlideBegin(doc.chunks, Unwrap(chunk_index_begin), offset_begin0)
        ELSE offset_begin0
      chunk_index_end == get_chunk_index_by_offset(doc, offset_end0)
      offset_end ==
        IF IsSome(chunk_index_end)
        THEN SlideEnd(doc.chunks, Unwrap(chunk_index_end), offset_end0)
        ELSE offset_end0
  IN IF offset_begin >= offset_end THEN Ok(doc, None)
     ELSE ReadAndBuildChunk(doc, SatSub(offset_begin, 1), offset_end)

\* Document::load_chunk; ret is Option<usize>, the index of the new chunk
load_chunk(doc, offset_begin, offset_end0) ==
  LET offset_end == MinOf(offset_end0, doc.document_size)
  IN IF ~(offset_begin < offset_end) THEN Panic(doc)
     ELSE AvoidChunkOverlap(doc, offset_begin, offset_end)

\* Document::load_chunk_around
load_chunk_around(doc, offset) ==
  load_chunk(doc, SatSub(offset, doc.default_chunk_size \div 2),
             offset + doc.default_chunk_size \div 2)

\* get_or_load_chunk_by_offset after load_chunk_around: the unwrap() of the
\* index and the chunk at that index
LoadedChunk(doc, loaded) ==
  IF loaded.panic \/ ~IsSome(loaded.ret) THEN Panic(doc)
  ELSE Ok(loaded.doc, loaded.doc.chunks[Unwrap(loaded.ret) + 1])

\* get_or_load_chunk_by_offset with the bug that a cached chunk is taken
\* from the front of the list instead of from the index found
get_or_load_first_chunk(doc, offset) ==
  LET chunk_index_opt == get_chunk_index_by_offset(doc, offset)
  IN IF IsSome(chunk_index_opt)
     THEN Ok(doc, doc.chunks[1])
     ELSE LoadedChunk(doc, load_chunk_around(doc, offset))

\* Document::get_or_load_chunk_by_offset; ret is the chunk.  Panics when
\* load_chunk_around returns None (unwrap) or the index is out of range.
get_or_load_chunk_by_offset(doc, offset) ==
  LET chunk_index_opt == get_chunk_index_by_offset(doc, offset)
  IN IF IsSome(chunk_index_opt)
     THEN Ok(doc, doc.chunks[Unwrap(chunk_index_opt) + 1])
     ELSE LoadedChunk(doc, load_chunk_around(doc, offset))

\* Document::new after its load_chunk: last_line must have been set
FirstChunkLoaded(document, loaded) ==
  IF loaded.panic \/ ~IsSome(loaded.doc.last_line)
  THEN Panic(document)
  ELSE Ok(loaded.doc, None)

\* the fields of a Document on a file with the given content, before
\* anything is loaded
EmptyDocument(reader, chunk_size) ==
  [reader |-> reader,
   chunks |-> << >>,
   log_timestamp_format |-> None,
   log_default_date |-> None,
   last_line |-> None,
   document_size |-> Len(reader),
   default_chunk_size |-> chunk_size]

\* Document::new on a file with the given content.  The window of the
\* initial load is DEFAULT_CHUNK_SIZE, which is also default_chunk_size.
new(reader, chunk_size) ==
  IF Len(reader) > 0
  THEN FirstChunkLoaded(EmptyDocument(reader, chunk_size),
                        load_chunk(EmptyDocument(reader, chunk_size),
                                   SatSub(Len(reader), chunk_size),
                                   Len(reader)))
  ELSE Ok([EmptyDocument(reader, chunk_size) EXCEPT
             !.last_line = Some(<< >>)], None)

(***************************************************************************)
(* Line and distance queries                                               *)
(***************************************************************************)
RECURSIVE QueryLinesLoop(_, _, _, _)
\* one turn of the while loop of query_lines, with the chunk got
QueryLinesInChunk(got, offset, line_count, lines) ==
  IF got.panic THEN got
  ELSE
  LET line_index == query_line_index_exactly(got.ret, offset)
  IN IF ~IsSome(line_index) THEN Panic(got.doc)
     ELSE
     LET line_count_taken ==
           MinOf(line_count, Len(got.ret.rows) - Unwrap(line_index))
     IN QueryLinesLoop(got.doc, got.ret.offset_end,
                       line_count - line_count_taken,
                       lines \o SubSeq(got.ret.rows,
                                       Unwrap(line_index) + 1,
                                       Unwrap(line_index) + line_count_taken))

\* the while loop of query_lines; ret is [line_count, lines]
QueryLinesLoop(doc, offset, line_count, lines) ==
  IF offset < last_line_start_offset(doc) /\ line_count > 0
  THEN QueryLinesInChunk(get_or_load_chunk_by_offset(doc, offset),
                         offset, line_count, lines)
  ELSE Ok(doc, [line_count |-> line_count, lines |-> lines])

\* last_line_without_line_break with the bug that the newline is kept
last_line_with_line_break(doc) == Unwrap(doc.last_line)

\* Document::last_line_without_line_break
last_line_without_line_break(doc) ==
  LET last_line == Unwrap(doc.last_line)
  IN IF last_line # << >> /\ last_line[Len(last_line)] = NL
     THEN SubSeq(last_line, 1, Len(last_line) - 1)
     ELSE last_line

\* query_lines after its loop: the last line is appended when lines are
\* still wanted
QueryLinesLastLine(loop) ==
  IF loop.panic THEN loop
  ELSE IF loop.ret.line_count > 0
       THEN Ok(loop.doc, Append(loop.ret.lines,
                                last_line_without_line_break(loop.doc)))
       ELSE Ok(loop.doc, loop.ret.lines)

\* Document::query_lines; ret is the sequence of lines
query_lines(doc, offset, line_count) ==
  QueryLinesLastLine(QueryLinesLoop(doc, offset, line_count, << >>))

RECURSIVE DistanceBelowLoop(_, _, _, _)
\* one turn of the while loop of query_distance_to_below_n_lines
DistanceBelowInChunk(got, offset, line_count, distance) ==
  IF got.panic THEN got
  ELSE
  LET line_index == query_line_index_exactly(got.ret, offset)
  IN IF ~IsSome(line_index) THEN Panic(got.doc)
     ELSE
     LET line_count_taken ==
           MinOf(line_count, Len(got.ret.rows) - Unwrap(line_index))
     IN DistanceBelowLoop(
          got.doc, got.ret.offset_end, line_count - line_count_taken,
          distance + SumLenPlus1(SubSeq(got.ret.rows,
                                        Unwrap(line_index) + 1,
                                        Unwrap(line_index)
                                          + line_count_taken)))

\* the while loop of query_distance_to_below_n_lines; ret is the distance
DistanceBelowLoop(doc, offset, line_count, distance) ==
  IF offset < last_line_start_offset(doc) /\ line_count > 0
  THEN DistanceBelowInChunk(get_or_load_chunk_by_offset(doc, offset),
                            offset, line_count, distance)
  ELSE Ok(doc, distance)

\* Document::query_distance_to_below_n_lines
query_distance_to_below_n_lines(doc, offset, line_count) ==
  DistanceBelowLoop(doc, offset, line_count, 0)

\* the number of rows of the chunk above the position: exact on the first
\* loop, query_line_index + 1 afterwards
AboveLinesInChunk(chunk, offset, first_loop) ==
  IF first_loop
  THEN query_line_index_exactly(chunk, offset)
  ELSE LET index == query_line_index(chunk, offset)
       IN IF IsSome(index) THEN Some(Unwrap(index) + 1) ELSE None

RECURSIVE DistanceAboveLoop(_, _, _, _, _)
\* one turn of the while loop of query_distance_to_above_n_lines
DistanceAboveInChunk(got, offset, line_count, distance, first_loop) ==
  IF got.panic THEN got
  ELSE
  LET above_lines_in_chunk == AboveLinesInChunk(got.ret, offset, first_loop)
  IN IF ~IsSome(above_lines_in_chunk) THEN Panic(got.doc)
     ELSE
     LET above == Unwrap(above_lines_in_chunk)
         line_count_taken == MinOf(line_count, above)
     IN DistanceAboveLoop(
          got.doc, SatSub(got.ret.offset_begin, 1),
          line_count - line_count_taken,
          distance + SumLenPlus1(SubSeq(got.ret.rows,
                                        above - line_count_taken + 1,
                                        above)),
          FALSE)

\* the while loop of query_distance_to_above_n_lines; ret is the distance
DistanceAboveLoop(doc, offset, line_count, distance, first_loop) ==
  IF offset > 0 /\ line_count > 0
  THEN DistanceAboveInChunk(get_or_load_chunk_by_offset(doc, offset),
                            offset, line_count, distance, first_loop)
  ELSE Ok(doc, distance)

\* Document::query_distance_to_above_n_lines
query_distance_to_above_n_lines(doc, offset, line_count) ==
  IF ~(offset <= last_line_start_offset(doc)) THEN Panic(doc)
  ELSE IF offset = last_line_start_offset(doc)
       THEN DistanceAboveLoop(doc, SatSub(offset, 1), line_count, 0, FALSE)
       ELSE DistanceAboveLoop(doc, offset, line_count, 0, TRUE)

(***************************************************************************)
(* Search                                                                  *)
(***************************************************************************)
RECURSIVE NextMatchLoop(_, _, _, _)
\* one turn of the while loop of query_distance_to_next_match
NextMatchInChunk(got, offset, search_pattern, distance) ==
  IF got.panic THEN got
  ELSE
  LET line_index == query_line_index_exactly(got.ret, offset)
  IN IF ~IsSome(line_index) THEN Panic(got.doc)
     ELSE
     LET matching == {i \in Unwrap(line_index) .. Len(got.ret.rows) - 1 :
                        Contains(got.ret.rows[i + 1], search_pattern)}
     IN IF matching # {}
        THEN Ok(got.doc,
                [found |-> TRUE,
                 distance |->
                   distance + SumLenPlus1(SubSeq(got.ret.rows,
                                                 Unwrap(line_index) + 1,
                                                 Min(matching)))])
        ELSE NextMatchLoop(
               got.doc, got.ret.offset_end, search_pattern,
               distance + SumLenPlus1(SubSeq(got.ret.rows,
                                             Unwrap(line_index) + 1,
                                             Len(got.ret.rows))))

\* the while loop of query_distance_to_next_match; ret is
\* [found, distance]
NextMatchLoop(doc, offset, search_pattern, distance) ==
  IF offset < last_line_start_offset(doc)
  THEN NextMatchInChunk(get_or_load_chunk_by_offset(doc, offset),
                        offset, search_pattern, distance)
  ELSE Ok(doc, [found |-> FALSE, distance |-> distance])

\* query_distance_to_next_match after its loop: the last line is searched
\* when no chunk row matched
NextMatchLastLine(loop, search_pattern) ==
  IF loop.panic THEN loop
  ELSE IF loop.ret.found THEN Ok(loop.doc, Some(loop.ret.distance))
  ELSE IF Contains(Unwrap(loop.doc.last_line), search_pattern)
       THEN Ok(loop.doc, Some(loop.ret.distance))
       ELSE Ok(loop.doc, None)

\* Document::query_distance_to_next_match; ret is Option<usize>
query_distance_to_next_match(doc, offset, search_pattern) ==
  NextMatchLastLine(NextMatchLoop(doc, offset, search_pattern, 0),
                    search_pattern)

RECURSIVE PrevMatchLoop(_, _, _, _, _)
\* one turn of the while loop of query_distance_to_prev_match
PrevMatchInChunk(got, offset, search_pattern, distance, first_loop) ==
  IF got.panic THEN got
  ELSE
  LET above_lines_in_chunk == AboveLinesInChunk(got.ret, offset, first_loop)
  IN IF ~IsSome(above_lines_in_chunk) THEN Panic(got.doc)
     ELSE
     LET above == Unwrap(above_lines_in_chunk)
         matching == {i \in 0 .. above - 1 :
                        Contains(got.ret.rows[i + 1], search_pattern)}
     IN IF matching # {}
        THEN Ok(got.doc,
                Some(distance + SumLenPlus1(SubSeq(got.ret.rows,
                                                   Max(matching) + 1,
                                                   above))))
        ELSE PrevMatchLoop(
               got.doc, SatSub(got.ret.offset_begin, 1), search_pattern,
               distance + SumLenPlus1(SubSeq(got.ret.rows, 1, above)),
               FALSE)

\* the while loop of query_distance_to_prev_match; ret is Option<usize>
PrevMatchLoop(doc, offset, search_pattern, distance, first_loop) ==
  IF offset > 0
  THEN PrevMatchInChunk(get_or_load_chunk_by_offset(doc, offset),
                        offset, search_pattern, distance, first_loop)
  ELSE Ok(doc, None)

\* Document::query_distance_to_prev_match
query_distance_to_prev_match(doc, offset, search_pattern) ==
  IF ~(offset <= last_line_start_offset(doc)) THEN Panic(doc)
  ELSE IF offset = last_line_start_offset(doc)
       THEN PrevMatchLoop(doc, SatSub(offset, 1), search_pattern, 0, FALSE)
       ELSE PrevMatchLoop(doc, offset, search_pattern, 0, TRUE)

\* assert_offset_is_at_line_start with the chunk got; ret is that chunk,
\* also when the assertion on it fails
OffsetIsAtLineStart(got, offset) ==
  IF got.panic THEN got
  ELSE IF ~IsSome(query_line_index_exactly(got.ret, offset))
       THEN [panic |-> TRUE, doc |-> got.doc, ret |-> Some(got.ret)]
       ELSE Ok(got.doc, Some(got.ret))

\* Document::assert_offset_is_at_line_start
assert_offset_is_at_line_start(doc, offset) ==
  OffsetIsAtLineStart(get_or_load_chunk_by_offset(doc, offset), offset)

(***************************************************************************)
(* Timestamp jump.  A date and time is one number.  A line carries a      *)
(* timestamp when it starts with a letter, which is then its date and      *)
(* time; an empty line carries none.                                       *)
(***************************************************************************)
SAMPLE_LINE_COUNT == 100

\* NaiveDateTime::parse_and_remainder(line, fmt): the date and time the
\* line starts with, None for Err
parse_and_remainder(line, fmt) ==
  IF line # << >> THEN Some(line[1]) ELSE None

\* detect_log_timstamp_format
detect_log_timstamp_format(line) ==
  IF IsSome(parse_and_remainder(line, "fmt")) THEN Some("fmt") ELSE None

\* Document::load_log_timestamp_format_and_default_date: the first of the
\* first SAMPLE_LINE_COUNT rows of chunks[0] with a timestamp sets both
\* fields
load_log_timestamp_format_and_default_date(doc) ==
  LET rows == doc.chunks[1].rows
      detected == {i \in 1 .. MinOf(Len(rows), SAMPLE_LINE_COUNT) :
                     IsSome(detect_log_timstamp_format(rows[i]))}
  IN IF detected = {} THEN doc
     ELSE [doc EXCEPT
             !.log_timestamp_format =
               detect_log_timstamp_format(rows[Min(detected)]),
             !.log_default_date =
               parse_and_remainder(rows[Min(detected)], "fmt")]

RECURSIVE LinearSearchLoop(_, _, _, _, _)
\* one turn of the while loop of linear_search_timestamp, with the chunk
\* got: the start of the first row of the chunk whose timestamp is at
\* least the target, or the next turn from the end of the chunk.  A turn
\* that comes back to an offset and a chunk list already seen repeats
\* forever; that is reported like a panic.
LinearSearchInChunk(got, offset_end, target, seen) ==
  IF got.panic THEN got
  ELSE
  LET reached == {i \in 1 .. Len(got.ret.rows) :
                    /\ IsSome(parse_and_remainder(
                                got.ret.rows[i],
                                Unwrap(got.doc.log_timestamp_format)))
                    /\ Unwrap(parse_and_remainder(
                                got.ret.rows[i],
                                Unwrap(got.doc.log_timestamp_format)))
                         >= target}
  IN IF reached # {}
     THEN Ok(got.doc,
             got.ret.offset_begin
               + SumLenPlus1(SubSeq(got.ret.rows, 1, Min(reached) - 1)))
     ELSE IF got.ret.offset_begin + SumLenPlus1(got.ret.rows)
               # got.ret.offset_end
          THEN Panic(got.doc)
          ELSE IF << got.ret.offset_end, got.doc.chunks >> \in seen
               THEN Panic(got.doc)
               ELSE LinearSearchLoop(
                      got.doc, got.ret.offset_end, offset_end, target,
                      seen \cup {<< got.ret.offset_end, got.doc.chunks >>})

\* the while loop of linear_search_timestamp
LinearSearchLoop(doc, offset, offset_end, target, seen) ==
  IF offset < offset_end
  THEN LinearSearchInChunk(get_or_load_chunk_by_offset(doc, offset),
                           offset_end, target, seen)
  ELSE Ok(doc, offset_end)

\* Document::linear_search_timestamp
linear_search_timestamp(doc, offset_begin, offset_end, target) ==
  LinearSearchLoop(doc, offset_begin, offset_end, target, { })

\* query_offset_by_timestamp: Ok(Some(..)) of what the linear search
\* returned
SomeOffset(found) ==
  IF found.panic THEN found ELSE Ok(found.doc, Some(found.ret))

RECURSIVE BisectLoop(_, _, _, _, _)
\* the bisection once the line at offset has a timestamp: the frame
\* shrinks to one side of offset, and the linear search takes over when
\* it is no wider than DEFAULT_CHUNK_SIZE
BisectNarrowed(doc, offset_begin, offset_end, target) ==
  IF offset_begin + doc.default_chunk_size >= offset_end
  THEN SomeOffset(linear_search_timestamp(doc, offset_begin, offset_end,
                                          target))
  ELSE BisectLoop(doc, offset_begin, offset_end,
                  (offset_begin + offset_end) \div 2, target)

\* one turn of the loop of query_offset_by_timestamp, with the chunk got
BisectInChunk(got, offset_begin, offset_end, offset, target) ==
  IF got.panic THEN got
  ELSE
  LET index == query_line_index(got.ret, offset)
  IN IF ~IsSome(index) THEN Panic(got.doc)
     ELSE
     LET datetime == parse_and_remainder(
                       got.ret.rows[Unwrap(index) + 1],
                       Unwrap(got.doc.log_timestamp_format))
         next_line == query_line_start_offset(got.ret, Unwrap(index) + 1)
     IN IF IsSome(datetime)
        THEN IF Unwrap(datetime) >= target
             THEN BisectNarrowed(got.doc, offset_begin, offset, target)
             ELSE BisectNarrowed(got.doc, offset, offset_end, target)
        ELSE IF next_line >= offset_end
             THEN Ok(got.doc, None)
             ELSE BisectLoop(got.doc, offset_begin, offset_end, next_line,
                             target)

\* the loop of query_offset_by_timestamp
BisectLoop(doc, offset_begin, offset_end, offset, target) ==
  BisectInChunk(get_or_load_chunk_by_offset(doc, offset),
                offset_begin, offset_end, offset, target)

\* query_offset_by_timestamp once the format has been looked for
FormatLoaded(doc, target) ==
  IF ~IsSome(doc.log_timestamp_format) THEN Ok(doc, None)
  ELSE BisectLoop(doc, 0, last_line_start_offset(doc),
                  (0 + last_line_start_offset(doc)) \div 2, target)

\* Document::query_offset_by_timestamp; target is the date and time asked
\* for; ret is Option<usize>
query_offset_by_timestamp(doc, target) ==
  IF doc.chunks = << >> THEN Ok(doc, Some(0))
  ELSE IF ~IsSome(doc.log_timestamp_format)
       THEN FormatLoaded(load_log_timestamp_format_and_default_date(doc),
                         target)
       ELSE FormatLoaded(doc, target)

(***************************************************************************)
(* render.rs: a line with its render schemes.  A range is a record of its  *)
(* start and end; a scheme is the slot number whose colour highlights the  *)
(* range (HighlightOption::from_slot_index).                               *)
(***************************************************************************)
Range(start, end) == [start |-> start, end |-> end]

\* LineWithRenderScheme::new
LineWithRenderScheme(content) == [content |-> content, render_schemes |-> << >>]

ranges_have_overlap(r1, r2) == r1.start < r2.end /\ r1.end > r2.start

\* a push of the range whatever the line holds
add_scheme(self, range, scheme) ==
  [self EXCEPT !.render_schemes =
     Append(@, [range |-> range, scheme |-> scheme])]

\* LineWithRenderScheme::add_scheme_if_not_overlap
add_scheme_if_not_overlap(self, range, scheme) ==
  IF \A i \in 1 .. Len(self.render_schemes) :
       ~ranges_have_overlap(range, self.render_schemes[i].range)
  THEN [self EXCEPT !.render_schemes =
          Append(@, [range |-> range, scheme |-> scheme])]
  ELSE self

\* LineWithRenderScheme::truncate: String::truncate on the content
truncate(self, width) ==
  [self EXCEPT !.content = SubSeq(@, 1, MinOf(width, Len(@)))]

\* the slice self.content[width_range.start..end] of substr panics when it
\* is taken with its end before its start
SubstrPanics(self, width_range) ==
  /\ width_range.start < Len(self.content)
  /\ MinOf(width_range.end, Len(self.content)) < width_range.start

\* the ranges cut to width_range and left where they were
RECURSIVE SubSchemesUnshifted(_, _, _)
SubSchemesUnshifted(render_schemes, width_range, k) ==
  IF k > Len(render_schemes) THEN << >>
  ELSE LET new_start == IF render_schemes[k].range.start >= width_range.start
                        THEN render_schemes[k].range.start
                        ELSE width_range.start
           new_end == MinOf(render_schemes[k].range.end, width_range.end)
       IN (IF new_start < new_end
           THEN << [range |-> Range(new_start, new_end),
                    scheme |-> render_schemes[k].scheme] >>
           ELSE << >>)
          \o SubSchemesUnshifted(render_schemes, width_range, k + 1)

\* the schemes of substr: each range cut to width_range and shifted
RECURSIVE SubSchemes(_, _, _)
SubSchemes(render_schemes, width_range, k) ==
  IF k > Len(render_schemes) THEN << >>
  ELSE LET new_start == IF render_schemes[k].range.start >= width_range.start
                        THEN render_schemes[k].range.start
                        ELSE width_range.start
           new_end == MinOf(render_schemes[k].range.end, width_range.end)
       IN (IF new_start < new_end
           THEN << [range |-> Range(new_start - width_range.start,
                                    new_end - width_range.start),
                    scheme |-> render_schemes[k].scheme] >>
           ELSE << >>)
          \o SubSchemes(render_schemes, width_range, k + 1)

\* LineWithRenderScheme::substr, where the slice does not panic
substr(self, width_range) ==
  [content |-> IF width_range.start >= Len(self.content) THEN << >>
               ELSE SubSeq(self.content, width_range.start + 1,
                           MinOf(width_range.end, Len(self.content))),
   render_schemes |-> SubSchemes(self.render_schemes, width_range, 1)]

\* sort_by on the start of the range: a stable sort, by insertion
RECURSIVE SortByStart(_, _)
InsertByStart(sorted, x) ==
  LET before == SelectSeq(sorted, LAMBDA y : y.range.start <= x.range.start)
      after == SelectSeq(sorted, LAMBDA y : y.range.start > x.range.start)
  IN before \o << x >> \o after
SortByStart(render_schemes, k) ==
  IF k = 0 THEN << >>
  ELSE InsertByStart(SortByStart(render_schemes, k - 1), render_schemes[k])

\* LineWithRenderScheme::render on the sorted schemes: the assertion on each
\* window of two, and the slices self.content[range] taken afterwards; the
\* rendered line is the content with, at each byte, the scheme that styles it
Rendered(self, sorted) ==
  [panic |-> \/ \E i \in 1 .. Len(sorted) - 1 :
                  ~(sorted[i].range.end <= sorted[i + 1].range.start)
             \/ \E i \in 1 .. Len(sorted) :
                  \/ sorted[i].range.start > sorted[i].range.end
                  \/ sorted[i].range.end > Len(self.content),
   line |-> [p \in 1 .. Len(self.content) |->
               [byte |-> self.content[p],
                schemes |-> {sorted[i].scheme : i \in
                               {j \in 1 .. Len(sorted) :
                                  /\ sorted[j].range.start < p
                                  /\ p <= sorted[j].range.end}}]]]

render(self) ==
  Rendered(self, SortByStart(self.render_schemes, Len(self.render_schemes)))

(***************************************************************************)
(* finder.rs: the ten slots of the Finder, its set of active slots, and    *)
(* the parser of its key presses.  A pattern is a string of the bytes of   *)
(* Letters; as a regex, the byte Wildcard is '.', which matches any byte   *)
(* of a line, and every other byte matches itself.                         *)
(***************************************************************************)
FINDER_SLOT_COUNT == 10

Wildcard == 2

array_index_to_slot_index(index) == (index + 1) % 10

array_index_from_slot_index(slot_index) == (slot_index + 9) % 10

\* FinderSlot::from_slot_array_index
from_slot_array_index(index) ==
  [slot_index |-> array_index_to_slot_index(index),
   highlight_flag |-> "On",
   highlight_option |-> array_index_to_slot_index(index),
   advanced_action |-> "Nothing",
   pattern_type |-> "Raw",
   pattern |-> None]

\* FinderSlot::reset
reset(slot) ==
  [slot EXCEPT !.highlight_flag = "On", !.advanced_action = "Nothing",
               !.pattern_type = "Raw", !.pattern = None]

\* HighlightFlag::toggle, AdvancedAction::toggle_fold and toggle_exclusive,
\* PatternType::toggle
toggle_highlight(slot) ==
  [slot EXCEPT !.highlight_flag = IF @ = "On" THEN "Off" ELSE "On"]
toggle_fold(slot) ==
  [slot EXCEPT !.advanced_action = IF @ = "Fold" THEN "Nothing" ELSE "Fold"]
toggle_exclusive(slot) ==
  [slot EXCEPT !.advanced_action =
     IF @ = "Exclusive" THEN "Nothing" ELSE "Exclusive"]
toggle_type(slot) ==
  [slot EXCEPT !.pattern_type = IF @ = "Raw" THEN "Regex" ELSE "Raw"]

\* the pattern of the slot matches line at byte position i
MatchesAt(slot, line, i) ==
  /\ i + Len(Unwrap(slot.pattern)) <= Len(line)
  /\ \A j \in 1 .. Len(Unwrap(slot.pattern)) :
       \/ Unwrap(slot.pattern)[j] = line[i + j]
       \/ slot.pattern_type = "Regex" /\ Unwrap(slot.pattern)[j] = Wildcard

\* FinderSlot::find_range_of_match: line.find(pattern), or the leftmost
\* match of the regex
find_range_of_match(slot, line) ==
  LET starts == {i \in 0 .. Len(line) : MatchesAt(slot, line, i)}
  IN IF starts = {} THEN None
     ELSE Some(Range(Min(starts), Min(starts) + Len(Unwrap(slot.pattern))))

\* Finder::new
FinderNew ==
  [slots |-> [index \in 0 .. FINDER_SLOT_COUNT - 1 |->
                from_slot_array_index(index)],
   active_slots |-> {1},
   menu_active |-> FALSE]

FinderOk(finder) == [panic |-> FALSE, finder |-> finder]
FinderPanic(finder) == [panic |-> TRUE, finder |-> finder]

\* Finder::update_search_pattern
update_search_pattern(finder, pattern) ==
  IF ~(Cardinality(finder.active_slots) = 1) THEN FinderPanic(finder)
  ELSE FinderOk([finder EXCEPT
         !.slots[array_index_from_slot_index(Min(finder.active_slots))]
            .pattern = Some(pattern)])

\* Finder::can_satisfy_active_search_patterns
can_satisfy_active_search_patterns(finder, line) ==
  \E slot_index \in finder.active_slots :
    /\ IsSome(finder.slots[array_index_from_slot_index(slot_index)].pattern)
    /\ IsSome(find_range_of_match(
                finder.slots[array_index_from_slot_index(slot_index)], line))

set_active_slot(finder, slot_index) ==
  FinderOk([finder EXCEPT !.active_slots = {slot_index}])

add_active_slot(finder, slot_index) ==
  FinderOk([finder EXCEPT !.active_slots = @ \cup {slot_index}])

remove_active_slot(finder, slot_index) ==
  IF ~(Cardinality(finder.active_slots) > 1) THEN FinderPanic(finder)
  ELSE IF finder.active_slots \ {slot_index} = {}
       THEN FinderPanic([finder EXCEPT !.active_slots = @ \ {slot_index}])
       ELSE FinderOk([finder EXCEPT !.active_slots = @ \ {slot_index}])

\* the loop of toggle_highlight_flag, toggle_fold_action,
\* toggle_exclusive_action, toggle_pattern_type and reset_active_slots: each
\* active slot becomes what changed has at its index
ForActiveSlots(finder, changed) ==
  FinderOk([finder EXCEPT !.slots =
    [index \in DOMAIN finder.slots |->
       IF \E slot_index \in finder.active_slots :
            array_index_from_slot_index(slot_index) = index
       THEN changed[index]
       ELSE finder.slots[index]]])

toggle_highlight_flag(finder) ==
  ForActiveSlots(finder, [index \in DOMAIN finder.slots |->
                            toggle_highlight(finder.slots[index])])
toggle_fold_action(finder) ==
  ForActiveSlots(finder, [index \in DOMAIN finder.slots |->
                            toggle_fold(finder.slots[index])])
toggle_exclusive_action(finder) ==
  ForActiveSlots(finder, [index \in DOMAIN finder.slots |->
                            toggle_exclusive(finder.slots[index])])
toggle_pattern_type(finder) ==
  ForActiveSlots(finder, [index \in DOMAIN finder.slots |->
                            toggle_type(finder.slots[index])])
reset_active_slots(finder) ==
  ForActiveSlots(finder, [index \in DOMAIN finder.slots |->
                            reset(finder.slots[index])])

\* a FinderAction: its variant and, for the three that carry one, the slot
FinderAction(type, index) == [type |-> type, index |-> index]

\* Finder::handle_event
handle_event(finder, action) ==
  CASE action.type = "MenuOn" -> FinderOk([finder EXCEPT !.menu_active = TRUE])
    [] action.type = "MenuOff" ->
         FinderOk([finder EXCEPT !.menu_active = FALSE])
    [] action.type \in {"AddActiveSlotStart", "RemoveActiveSlotStart"} ->
         FinderPanic(finder)
    [] action.type = "SwitchActiveSlot" -> set_active_slot(finder, action.index)
    [] action.type = "AddActiveSlot" -> add_active_slot(finder, action.index)
    [] action.type = "RemoveActiveSlot" ->
         remove_active_slot(finder, action.index)
    [] action.type = "AddOrRemoveActiveSlotCancel" -> FinderOk(finder)
    [] action.type = "ToggleHighlightFlag" -> toggle_highlight_flag(finder)
    [] action.type = "ToggleFoldAction" -> toggle_fold_action(finder)
    [] action.type = "ToggleExclusiveAction" -> toggle_exclusive_action(finder)
    [] action.type = "TogglePatternType" -> toggle_pattern_type(finder)
    [] action.type = "ResetSlot" -> reset_active_slots(finder)

\* Manager::on_finder_event: the two Start actions only set the status text
on_finder_event(finder, action) ==
  IF action.type \in {"AddActiveSlotStart", "RemoveActiveSlotStart"}
  THEN FinderOk(finder)
  ELSE handle_event(finder, action)

\* can_pass_advance_action without its first return: the Exclusive slots
\* alone decide
can_pass_exclusive_only(finder, line) ==
  LET exclusive_patterns ==
        {index \in DOMAIN finder.slots :
           /\ finder.slots[index].advanced_action = "Exclusive"
           /\ IsSome(finder.slots[index].pattern)}
  IN ~(/\ exclusive_patterns # {}
       /\ \A index \in exclusive_patterns :
            ~Contains(line, Unwrap(finder.slots[index].pattern)))

\* Finder::can_pass_advance_action
can_pass_advance_action(finder, line) ==
  LET fold_patterns ==
        {index \in DOMAIN finder.slots :
           /\ finder.slots[index].advanced_action = "Fold"
           /\ IsSome(finder.slots[index].pattern)}
      exclusive_patterns ==
        {index \in DOMAIN finder.slots :
           /\ finder.slots[index].advanced_action = "Exclusive"
           /\ IsSome(finder.slots[index].pattern)}
  IN IF \E index \in fold_patterns :
          Contains(line, Unwrap(finder.slots[index].pattern))
     THEN FALSE
     ELSE IF /\ exclusive_patterns # {}
             /\ \A index \in exclusive_patterns :
                  ~Contains(line, Unwrap(finder.slots[index].pattern))
          THEN FALSE
          ELSE TRUE

\* the while loop of attach_render_scheme for one slot, from from_pos on.  A
\* match that is empty leaves from_pos where it was, and the loop adds the
\* same empty range for ever: hang
RECURSIVE AttachMatches(_, _, _)
AttachMatch(slot, from_pos, line_with_scheme, match_range) ==
  IF ~IsSome(match_range)
  THEN [hang |-> FALSE, line |-> line_with_scheme]
  ELSE IF Unwrap(match_range).end + from_pos = from_pos
       THEN [hang |-> TRUE, line |-> line_with_scheme]
       ELSE AttachMatches(
              slot, Unwrap(match_range).end + from_pos,
              add_scheme_if_not_overlap(
                line_with_scheme,
                Range(Unwrap(match_range).start + from_pos,
                      Unwrap(match_range).end + from_pos),
                slot.highlight_option))

AttachMatches(slot, from_pos, line_with_scheme) ==
  AttachMatch(slot, from_pos, line_with_scheme,
              find_range_of_match(
                slot, SubSeq(line_with_scheme.content, from_pos + 1,
                             Len(line_with_scheme.content))))

\* the slots in the order of the array, active or not
SlotOrderOfArray(finder) == [i \in 1 .. FINDER_SLOT_COUNT |-> i - 1]

\* the slots in the order attach_render_scheme goes through them: the
\* active ones, then the others, each group in the order of the array
SlotOrder(finder) ==
  LET array == [i \in 1 .. FINDER_SLOT_COUNT |-> i - 1]
  IN SelectSeq(array, LAMBDA index :
       finder.slots[index].slot_index \in finder.active_slots)
     \o SelectSeq(array, LAMBDA index :
          finder.slots[index].slot_index \notin finder.active_slots)

\* the for loop of attach_render_scheme, from the k-th slot of order on
RECURSIVE AttachSlots(_, _, _, _)
SlotAttached(finder, order, k, attached) ==
  IF attached.hang THEN attached
  ELSE AttachSlots(finder, order, k + 1, attached.line)

AttachSlots(finder, order, k, line_with_scheme) ==
  IF k > Len(order) THEN [hang |-> FALSE, line |-> line_with_scheme]
  ELSE IF \/ finder.slots[order[k]].highlight_flag = "Off"
          \/ ~IsSome(finder.slots[order[k]].pattern)
       THEN AttachSlots(finder, order, k + 1, line_with_scheme)
       ELSE SlotAttached(finder, order, k,
                         AttachMatches(finder.slots[order[k]], 0,
                                       line_with_scheme))

\* Finder::attach_render_scheme
attach_render_scheme(finder, line) ==
  AttachSlots(finder, SlotOrder(finder), 1, LineWithRenderScheme(line))

\* FinderEventParser::default
FinderEventParserDefault == [state |-> "Normal", menu_active |-> FALSE]

Parsed(parser, action) == [parser |-> parser, action |-> action]

\* a key pressed with no modifier but shift: a digit, or one of the
\* characters "+", "-", "Esc", "o", "f", "e", "r", "x", "m"; any other key
\* is "other"
KeyCode(char, index) == [char |-> char, index |-> index]

\* FinderEventParser::try_parse_raw_event; action is an Option
try_parse_raw_event(parser, key) ==
  CASE key.char = "+" ->
         IF parser.state = "Normal"
         THEN Parsed([parser EXCEPT !.state = "ParsedAdd"],
                     Some(FinderAction("AddActiveSlotStart", 0)))
         ELSE Parsed(parser, None)
    [] key.char = "-" ->
         IF parser.state = "Normal"
         THEN Parsed([parser EXCEPT !.state = "ParsedRemove"],
                     Some(FinderAction("RemoveActiveSlotStart", 0)))
         ELSE Parsed(parser, None)
    [] key.char = "digit" ->
         Parsed([parser EXCEPT !.state = "Normal"],
                Some(FinderAction(
                       CASE parser.state = "Normal" -> "SwitchActiveSlot"
                         [] parser.state = "ParsedAdd" -> "AddActiveSlot"
                         [] parser.state = "ParsedRemove" -> "RemoveActiveSlot",
                       key.index)))
    [] key.char = "Esc" ->
         IF parser.state # "Normal"
         THEN Parsed([parser EXCEPT !.state = "Normal"],
                     Some(FinderAction("AddOrRemoveActiveSlotCancel", 0)))
         ELSE IF parser.menu_active
              THEN Parsed([parser EXCEPT !.menu_active = FALSE],
                          Some(FinderAction("MenuOff", 0)))
              ELSE Parsed(parser, None)
    [] key.char = "m" ->
         IF parser.state # "Normal" THEN Parsed(parser, None)
         ELSE IF parser.menu_active
              THEN Parsed([parser EXCEPT !.menu_active = FALSE],
                          Some(FinderAction("MenuOff", 0)))
              ELSE Parsed([parser EXCEPT !.menu_active = TRUE],
                          Some(FinderAction("MenuOn", 0)))
    [] key.char \in {"o", "f", "e", "r", "x"} ->
         IF parser.state # "Normal" THEN Parsed(parser, None)
         ELSE Parsed(parser,
                Some(FinderAction(
                       CASE key.char = "o" -> "ToggleHighlightFlag"
                         [] key.char = "f" -> "ToggleFoldAction"
                         [] key.char = "e" -> "ToggleExclusiveAction"
                         [] key.char = "r" -> "TogglePatternType"
                         [] key.char = "x" -> "ResetSlot",
                       0)))
    [] OTHER -> Parsed(parser, None)

(***************************************************************************)
(* State: the document, whether the program is still running (a panic     *)
(* ends it), and the call the caller has just made with its result, until  *)
(* the caller drops the result and is ready for its next call.             *)
(***************************************************************************)
VARIABLES document, status, last,
          finder, finder_event_parser, event, canvas, manager

vars == << document, status, last,
           finder, finder_event_parser, event, canvas, manager >>

\* the finder, the parser of its keys, the finder action of the last key
\* press or search with the active slots it found, and the line last put on
\* the canvas: the raw line, whether it passed the filters, the line with
\* its schemes, and, once a substr has been taken of that, the line and the
\* range it was taken of
finder_vars == << finder, finder_event_parser, event, canvas >>

\* a Document built on its own, as the tests of document.rs build it, has
\* no Manager around it and so no Finder
NoFinder == << >>

\* nor has it, or a Finder or a line built on its own, a window, bookmarks
\* or a status bar
NoManager == << >>

NoEvent == [type |-> "none", index |-> 0, active_slots |-> {}]

\* nothing is on the canvas (Canvas::clear)
NoCanvas ==
  [filled |-> FALSE, line |-> << >>, passed |-> FALSE, attached |-> None,
   cut |-> None]

\* all strings over S of length at most n
BoundedSeq(S, n) == UNION {[1 .. k -> S] : k \in 0 .. n}

Files == BoundedSeq(Bytes, MaxFileLen)
ChunkSizes == 2 .. MaxChunkSize
LineCounts == 0 .. MaxLineCount
\* search patterns: no newline, as typed into the prompt
Patterns == BoundedSeq(Letters, MaxPatternLen)
\* the dates and times asked for: those a line can carry and a later one
Times == Letters \cup {Max(Letters) + 1}

\* the offsets a caller holds: line starts within [0, last_line_start_offset]
LineStarts(doc) ==
  {o \in 0 .. last_line_start_offset(doc) : o = 0 \/ doc.reader[o] = NL}

\* a call: the function, its arguments (those it does not take are 0 or
\* empty) and what it returned: lines for query_lines; distance, an
\* Option<usize>, for the distance and match queries and for the index
\* load_chunk returns; chunk, an Option, for the chunk found or loaded
CallRecord(op, offset, offset_end, line_count, search_pattern) ==
  [op |-> op, offset |-> offset, offset_end |-> offset_end,
   line_count |-> line_count, search_pattern |-> search_pattern,
   time |-> 0, lines |-> << >>, distance |-> None,
   chunk |-> None]

\* no result is held: the caller may make its next call
NoCall == CallRecord("none", 0, 0, 0, << >>)

Ready == status = "running" /\ last.op = "none"

\* the effect of a call whose outcome is r; a panic ends the program and
\* returns nothing (the chunk get_or_load_chunk_by_offset returned is kept)
Finish(call, r, field) ==
  /\ document' = r.doc
  /\ status' = IF r.panic THEN "panicked" ELSE "running"
  /\ last' = IF field = "chunk" THEN [call EXCEPT !.chunk = r.ret]
             ELSE IF r.panic THEN call
             ELSE IF field = "lines" THEN [call EXCEPT !.lines = r.ret]
             ELSE IF field = "usize"
                  THEN [call EXCEPT !.distance = Some(r.ret)]
             ELSE [call EXCEPT !.distance = r.ret]
  /\ UNCHANGED finder_vars
  /\ UNCHANGED manager

\* The state after Document::new.  As the tests of document.rs do, the
\* chunk loaded by new may be dropped again (doc.chunks.pop()), which leaves
\* an empty chunk list with last_line set.
\* the state once Document::new has returned r; the tests of document.rs
\* then empty the chunk list (pop)
Constructed(r, pop) ==
  /\ pop => ~r.panic /\ r.doc.chunks # << >>
  /\ document = IF pop THEN [r.doc EXCEPT !.chunks = << >>] ELSE r.doc
  /\ status = IF r.panic THEN "panicked" ELSE "running"
  /\ last = CallRecord(IF pop THEN "new_pop" ELSE "new", 0, 0, 0, << >>)
  /\ finder = NoFinder
  /\ finder_event_parser = FinderEventParserDefault
  /\ event = NoEvent
  /\ canvas = NoCanvas
  /\ manager = NoManager

Init ==
  \E reader \in Files, chunk_size \in ChunkSizes, pop \in BOOLEAN :
    Constructed(new(reader, chunk_size), pop)

\* the caller is done with the result of its last call (the end of an
\* iteration of Manager::run, of a statement of a test)
DropResult ==
  /\ status = "running"
  /\ last.op # "none"
  /\ last' = NoCall
  /\ UNCHANGED << document, status >>
  /\ UNCHANGED finder_vars
  /\ UNCHANGED manager

QueryLines ==
  /\ Ready
  /\ \E offset \in LineStarts(document), line_count \in LineCounts :
       Finish(CallRecord("query_lines", offset, 0, line_count, << >>),
              query_lines(document, offset, line_count), "lines")

QueryDistanceBelow ==
  /\ Ready
  /\ \E offset \in LineStarts(document), line_count \in LineCounts :
       Finish(CallRecord("query_distance_to_below_n_lines", offset, 0,
                         line_count, << >>),
              query_distance_to_below_n_lines(document, offset, line_count),
              "usize")

QueryDistanceAbove ==
  /\ Ready
  /\ \E offset \in LineStarts(document), line_count \in LineCounts :
       Finish(CallRecord("query_distance_to_above_n_lines", offset, 0,
                         line_count, << >>),
              query_distance_to_above_n_lines(document, offset, line_count),
              "usize")

QueryNextMatch ==
  /\ Ready
  /\ \E offset \in LineStarts(document), search_pattern \in Patterns :
       Finish(CallRecord("query_distance_to_next_match", offset, 0, 0,
                         search_pattern),
              query_distance_to_next_match(document, offset, search_pattern),
              "option")

QueryPrevMatch ==
  /\ Ready
  /\ \E offset \in LineStarts(document), search_pattern \in Patterns :
       Finish(CallRecord("query_distance_to_prev_match", offset, 0, 0,
                         search_pattern),
              query_distance_to_prev_match(document, offset, search_pattern),
              "option")

\* Manager::ensure_consistency: assert_offset_is_at_line_start on an offset
\* before the last line
AssertOffsetIsAtLineStart ==
  /\ Ready
  /\ \E offset \in LineStarts(document) :
       /\ offset < last_line_start_offset(document)
       /\ Finish(CallRecord("assert_offset_is_at_line_start", offset, 0, 0,
                            << >>),
                 assert_offset_is_at_line_start(document, offset), "chunk")

\* a direct call of load_chunk(offset_begin, offset_end), as the tests and
\* every get_or_load_chunk_by_offset make it
LoadChunk ==
  /\ Ready
  /\ \E offset_begin \in 0 .. document.document_size,
        offset_end \in 1 .. document.document_size + 1 :
       /\ offset_begin < offset_end
       /\ Finish(CallRecord("load_chunk", offset_begin, offset_end, 0,
                            << >>),
                 load_chunk(document, offset_begin, offset_end), "option")

\* a jump to a timestamp (Manager::on_jump_to_timestamp_event)
QueryOffsetByTimestamp ==
  /\ Ready
  /\ \E target \in Times :
       Finish([CallRecord("query_offset_by_timestamp", 0, 0, 0, << >>)
                 EXCEPT !.time = target],
              query_offset_by_timestamp(document, target), "option")

Next ==
  \/ DropResult
  \/ QueryLines
  \/ QueryDistanceBelow
  \/ QueryDistanceAbove
  \/ QueryNextMatch
  \/ QueryPrevMatch
  \/ AssertOffsetIsAtLineStart

Spec == Init /\ [][Next]_vars

NextLoad ==
  \/ DropResult
  \/ LoadChunk
  \/ QueryLines
  \/ QueryDistanceBelow
  \/ QueryDistanceAbove

\* the queries together with direct calls of load_chunk
SpecLoad == Init /\ [][NextLoad]_vars

NextTimestamp ==
  \/ DropResult
  \/ LoadChunk
  \/ QueryLines
  \/ QueryOffsetByTimestamp

\* timestamp jumps, between line queries and direct calls of load_chunk
SpecTimestamp == Init /\ [][NextTimestamp]_vars

(***************************************************************************)
(* The Finder under key presses and confirmed search prompts.              *)
(***************************************************************************)
\* the digit keys pressed: slot 1, the first of the array, and slot 0, its
\* last
SlotKeys == {0, 1}

Keys ==
  {KeyCode("digit", index) : index \in SlotKeys}
  \cup {KeyCode(char, 0) :
          char \in {"+", "-", "Esc", "o", "f", "e", "r", "x", "m", "other"}}

\* the lines put on the canvas
Lines == BoundedSeq(Letters, MaxLineLen)

\* the document of an empty file, the finder and its parser as constructed
InitFinder ==
  /\ document = new(<< >>, MaxChunkSize).doc
  /\ status = "running"
  /\ last = NoCall
  /\ finder = FinderNew
  /\ finder_event_parser = FinderEventParserDefault
  /\ event = NoEvent
  /\ canvas = NoCanvas
  /\ manager = NoManager

\* the effect on the finder of an action whose outcome is r
Handled(action, r) ==
  /\ finder' = r.finder
  /\ status' = IF r.panic THEN "panicked" ELSE "running"
  /\ event' = [type |-> action.type, index |-> action.index,
               active_slots |-> finder.active_slots]

\* EventSource::handle_key_press when no prompt and no bookmark menu is
\* active, then Manager::on_finder_event; a key the parser returns None for
\* goes to the other key bindings, which leave the finder alone
KeyParsed(parsed) ==
  /\ finder_event_parser' = parsed.parser
  /\ IF IsSome(parsed.action)
     THEN Handled(Unwrap(parsed.action),
                  on_finder_event(finder, Unwrap(parsed.action)))
     ELSE /\ event' = NoEvent
          /\ UNCHANGED << finder, status >>

KeyPress ==
  /\ status = "running"
  /\ \E key \in Keys :
       KeyParsed(try_parse_raw_event(finder_event_parser, key))
  /\ UNCHANGED << document, last, canvas, manager >>

\* Manager::on_search_event(PromptAction::Enter(content)).  The search that
\* follows reads the document, here that of an empty file, on which it
\* finds nothing and loads nothing.
SearchEnter ==
  /\ status = "running"
  /\ \E content \in Patterns :
       IF Cardinality(finder.active_slots) > 1
       THEN Handled(FinderAction("SearchRefused", 0), FinderOk(finder))
       ELSE Handled(FinderAction("SearchEnter", 0),
                    update_search_pattern(finder, content))
  /\ UNCHANGED << document, last, finder_event_parser, canvas, manager >>

NextFinder ==
  \/ KeyPress
  \/ SearchEnter

SpecFinder == InitFinder /\ [][NextFinder]_vars

(***************************************************************************)
(* Putting a line on the canvas, in every state the finder can be in.      *)
(***************************************************************************)
\* what a slot can hold
SlotSettings ==
  [highlight_flag : {"On", "Off"},
   advanced_action : {"Nothing", "Fold", "Exclusive"},
   pattern_type : {"Raw", "Regex"},
   pattern : {None} \cup {Some(pattern) : pattern \in Patterns}]

\* the slot at index of the array with the given settings
SlotWith(index, settings) ==
  [from_slot_array_index(index) EXCEPT
     !.highlight_flag = settings.highlight_flag,
     !.advanced_action = settings.advanced_action,
     !.pattern_type = settings.pattern_type,
     !.pattern = settings.pattern]

\* the finder after key presses and searches have set the slots of SlotKeys
\* and the active slots
InitRender ==
  /\ document = new(<< >>, MaxChunkSize).doc
  /\ status = "running"
  /\ last = NoCall
  /\ \E settings \in [SlotKeys -> SlotSettings],
        active_slots \in (SUBSET SlotKeys) \ {{}} :
       finder = [FinderNew EXCEPT
         !.active_slots = active_slots,
         !.slots = [index \in DOMAIN FinderNew.slots |->
                      IF array_index_to_slot_index(index) \in SlotKeys
                      THEN SlotWith(index,
                             settings[array_index_to_slot_index(index)])
                      ELSE FinderNew.slots[index]]]
  /\ finder_event_parser = FinderEventParserDefault
  /\ event = NoEvent
  /\ canvas = NoCanvas
  /\ manager = NoManager

\* the line is on the canvas with the schemes attached
Attached(line, attached) ==
  /\ status' = IF attached.hang THEN "hung" ELSE "running"
  /\ canvas' = [filled |-> TRUE, line |-> line, passed |-> TRUE,
                attached |-> IF attached.hang THEN None
                             ELSE Some(attached.line),
                cut |-> None]

\* Manager::fill_canvas_and_render for one raw line: a line that does not
\* pass the advanced actions is left out, any other gets its schemes; what
\* the window then cuts out of it is a substr of the line held here
RenderLine ==
  /\ status = "running"
  /\ \E line \in Lines :
       IF ~can_pass_advance_action(finder, line)
       THEN /\ canvas' = [filled |-> TRUE, line |-> line, passed |-> FALSE,
                          attached |-> None, cut |-> None]
            /\ UNCHANGED status
       ELSE Attached(line, attach_render_scheme(finder, line))
  /\ UNCHANGED << document, last, finder, finder_event_parser, event,
                  manager >>

\* the next frame begins (self.canvas.clear())
ClearCanvas ==
  /\ status = "running"
  /\ canvas.filled
  /\ canvas' = NoCanvas
  /\ UNCHANGED << document, status, last, finder, finder_event_parser,
                  event, manager >>

NextRender ==
  \/ RenderLine
  \/ ClearCanvas

SpecRender == InitRender /\ [][NextRender]_vars

(***************************************************************************)
(* substr on lines with schemes.                                           *)
(***************************************************************************)
\* the ranges start..end with start <= end, up to one past the longest line
WidthRanges ==
  UNION {{Range(start, end) : end \in start .. MaxLineLen + 1} :
           start \in 0 .. MaxLineLen + 1}

\* a line with up to two schemes, put there by add_scheme_if_not_overlap,
\* whose ranges lie within the content
InitSubstr ==
  /\ document = new(<< >>, MaxChunkSize).doc
  /\ status = "running"
  /\ last = NoCall
  /\ finder = FinderNew
  /\ finder_event_parser = FinderEventParserDefault
  /\ event = NoEvent
  /\ manager = NoManager
  /\ \E content \in Lines :
       \E first, second \in {range \in WidthRanges :
                               range.end <= Len(content)} :
         canvas = [filled |-> TRUE, line |-> content, passed |-> TRUE,
                   attached |->
                     Some(add_scheme_if_not_overlap(
                            add_scheme_if_not_overlap(
                              LineWithRenderScheme(content), first, 1),
                            second, 0)),
                   cut |-> None]

\* the line on the canvas gives way to a substr of it
Substr ==
  /\ status = "running"
  /\ IsSome(canvas.attached)
  /\ \E width_range \in WidthRanges :
       /\ ~SubstrPanics(Unwrap(canvas.attached), width_range)
       /\ canvas' =
            [canvas EXCEPT
               !.attached = Some(substr(Unwrap(canvas.attached), width_range)),
               !.cut = Some([source |-> Unwrap(canvas.attached),
                             width_range |-> width_range])]
  /\ UNCHANGED << document, status, last, finder, finder_event_parser,
                  event, manager >>

NextSubstr == Substr

SpecSubstr == InitSubstr /\ [][NextSubstr]_vars

\* the line on the canvas gives way to itself truncated to width, which is
\* kept as the range 0 .. width
Truncate ==
  /\ status = "running"
  /\ IsSome(canvas.attached)
  /\ \E width \in 0 .. MaxLineLen + 1 :
       canvas' =
         [canvas EXCEPT
            !.attached = Some(truncate(Unwrap(canvas.attached), width)),
            !.cut = Some([source |-> Unwrap(canvas.attached),
                          width_range |-> Range(0, width)])]
  /\ UNCHANGED << document, status, last, finder, finder_event_parser,
                  event, manager >>

NextTruncate == Truncate

\* truncate on lines with schemes
SpecTruncate == InitSubstr /\ [][NextTruncate]_vars

(***************************************************************************)
(* The window (window.rs): the offset of the first line shown, and the     *)
(* offsets it has been set to, with a cursor for undo and redo.            *)
(***************************************************************************)
\* the longest offset history kept in the model: no offset is set once the
\* history is that long and the cursor is at its end
MaxHistoryLen == 3

\* the largest offset and distance the window is given on its own
MaxOffset == 3

\* the most lines a window shows (terminal::size, less the status bar)
MaxWindowHeight == 2

OffsetHistoryNew == [offsets |-> << 0 >>, current_index |-> 0]

\* assert!(self.offsets.len() > self.current_index)
PushPanics(self) == ~(Len(self.offsets) > self.current_index)

\* a push that keeps the offsets after the cursor
push_keeping(self, offset) ==
  [offsets |-> self.offsets \o << offset >>,
   current_index |-> Len(self.offsets)]

\* truncate(current_index + 1), push, current_index = len - 1
push(self, offset) ==
  [offsets |-> SubSeq(self.offsets, 1, self.current_index + 1) \o << offset >>,
   current_index |-> self.current_index + 1]

previous_one(self) == [self EXCEPT !.current_index = SatSub(@, 1)]

next_one(self) ==
  [self EXCEPT !.current_index = MinOf(@ + 1, Len(self.offsets) - 1)]

\* self.offsets[self.current_index]
CurrentOffset(history) == history.offsets[history.current_index + 1]

WindowNew(height) ==
  [height |-> height, offset |-> 0, offset_history |-> OffsetHistoryNew]

set_offset(self, offset) ==
  [self EXCEPT !.offset = offset, !.offset_history = push(@, offset)]

move_offset_by(self, distance, direction) ==
  IF direction = "Up"
  THEN set_offset(self, SatSub(self.offset, distance))
  ELSE set_offset(self, self.offset + distance)

goto_previous_offset(self) ==
  [self EXCEPT !.offset = CurrentOffset(previous_one(self.offset_history)),
               !.offset_history = previous_one(@)]

goto_next_offset(self) ==
  [self EXCEPT !.offset = CurrentOffset(next_one(self.offset_history)),
               !.offset_history = next_one(@)]

\* the history has room for one more offset after the cursor
HistoryHasRoom(window) ==
  window.offset_history.current_index + 1 < MaxHistoryLen

\* a window on its own, as Window::new returns it
InitWindow ==
  /\ document = new(<< >>, MaxChunkSize).doc
  /\ status = "running"
  /\ last = NoCall
  /\ finder = NoFinder
  /\ finder_event_parser = FinderEventParserDefault
  /\ event = NoEvent
  /\ canvas = NoCanvas
  /\ \E height \in 1 .. MaxWindowHeight :
       manager = [window |-> WindowNew(height), op |-> "new",
                  before |-> WindowNew(height)]

\* the window after one of its operations, and the window before it
WindowOp(op, window) ==
  /\ manager' = [window |-> window, op |-> op, before |-> manager.window]
  /\ UNCHANGED << document, last, finder, finder_event_parser, event,
                  canvas >>

SetOffset ==
  /\ status = "running"
  /\ HistoryHasRoom(manager.window)
  /\ status' = IF PushPanics(manager.window.offset_history)
               THEN "panicked" ELSE "running"
  /\ \E offset \in 0 .. MaxOffset :
       WindowOp("set_offset", set_offset(manager.window, offset))

MoveOffsetBy ==
  /\ status = "running"
  /\ HistoryHasRoom(manager.window)
  /\ status' = IF PushPanics(manager.window.offset_history)
               THEN "panicked" ELSE "running"
  /\ \E distance \in 0 .. MaxOffset, direction \in {"Up", "Down"} :
       /\ direction = "Down" => manager.window.offset + distance <= MaxOffset
       /\ WindowOp("move_offset_by",
                   move_offset_by(manager.window, distance, direction))

GotoPreviousOffset ==
  /\ status = "running"
  /\ UNCHANGED status
  /\ WindowOp("goto_previous_offset", goto_previous_offset(manager.window))

GotoNextOffset ==
  /\ status = "running"
  /\ UNCHANGED status
  /\ WindowOp("goto_next_offset", goto_next_offset(manager.window))

NextWindow ==
  \/ SetOffset
  \/ MoveOffsetBy
  \/ GotoPreviousOffset
  \/ GotoNextOffset

SpecWindow == InitWindow /\ [][NextWindow]_vars

(***************************************************************************)
(* The controller (manager.rs) under main (main.rs): the terminal is put   *)
(* in raw mode, the Manager is built on a file and runs its loop: render,  *)
(* wait for an event and handle it, check consistency.  The prompts hand   *)
(* over what was typed on Enter; their other events only change the text   *)
(* of the status bar.  The terminal keeps its size, lines are not wrapped  *)
(* or shifted, and the finder keeps its one active slot, whose pattern the *)
(* searches set.                                                           *)
(***************************************************************************)
\* the longest file the controller is run on
MaxManagerFileLen == 4

\* the largest line count typed into the jump prompt
MaxStep == 2

\* the longest offset history the controller keeps in the model
MaxManagerHistoryLen == 2

BOOKMARK_NAME_MAX_LEN == 50

\* a bookmark name of n bytes
BookmarkName(n) == [i \in 1 .. n |-> 1]

\* the names typed into the bookmark prompt: as long as a name may be, and
\* one byte longer
BookmarkNames ==
  {BookmarkName(BOOKMARK_NAME_MAX_LEN), BookmarkName(BOOKMARK_NAME_MAX_LEN + 1)}

\* Manager::new and the first statement of run; op is the event handled
\* since the last frame, distance what its search found, rendered the
\* offset the canvas was last filled from, raw_mode whether the terminal is
\* in raw mode
ManagerNew(height) ==
  [window |-> WindowNew(height),
   need_rerender |-> TRUE,
   bookmarks |-> {},
   oneoff_error_text |-> "",
   rendered |-> None,
   raw_mode |-> TRUE,
   pc |-> "render",
   op |-> "new",
   distance |-> None]

\* the outcome of a handler
ManagerOk(doc, self) == [panic |-> FALSE, doc |-> doc, manager |-> self]
ManagerPanic(doc, self) == [panic |-> TRUE, doc |-> doc, manager |-> self]

\* StatusBar::set_oneoff_error_text
set_oneoff_error_text(self, text) == [self EXCEPT !.oneoff_error_text = text]

\* self.window.move_offset_by(distance + extra_distance, direction) for the
\* distance r the document has returned
MovedBy(self, r, extra_distance, direction) ==
  IF r.panic THEN ManagerPanic(r.doc, self)
  ELSE ManagerOk(r.doc,
         [self EXCEPT !.window =
            move_offset_by(@, r.ret + extra_distance, direction)])

\* Manager::on_window_move_event, Up and Down
on_window_move_event(doc, self, direction, step) ==
  IF direction = "Up"
  THEN MovedBy(self,
         query_distance_to_above_n_lines(doc, self.window.offset, step),
         0, direction)
  ELSE MovedBy(self,
         query_distance_to_below_n_lines(doc, self.window.offset, step),
         0, direction)

\* a search that moves the window even when nothing was found
SearchedMoving(self, r, extra_distance, direction) ==
  IF r.panic THEN ManagerPanic(r.doc, self)
  ELSE ManagerOk(r.doc,
         [self EXCEPT
            !.distance = r.ret,
            !.window =
              move_offset_by(@, (IF IsSome(r.ret) THEN Unwrap(r.ret) ELSE 0)
                                  + extra_distance, direction)])

\* the end of search_next: the window moves by the distance found, or the
\* status bar says that nothing was found
Searched(self, r, extra_distance, direction) ==
  IF r.panic THEN ManagerPanic(r.doc, self)
  ELSE IF IsSome(r.ret)
       THEN ManagerOk(r.doc,
              [self EXCEPT
                 !.distance = r.ret,
                 !.window =
                   move_offset_by(@, Unwrap(r.ret) + extra_distance,
                                  direction)])
       ELSE ManagerOk(r.doc, set_oneoff_error_text(self, "Not found"))

\* a pattern no line holds: what the one active slot of a finder looks for
\* before a search has given it a pattern
NoPattern == << NL, NL >>

\* the predicate of search_next as the pattern the document looks for
SearchPattern(the_finder) ==
  IF IsSome(the_finder.slots[array_index_from_slot_index(
                           Min(the_finder.active_slots))].pattern)
  THEN Unwrap(the_finder.slots[array_index_from_slot_index(
                             Min(the_finder.active_slots))].pattern)
  ELSE NoPattern

\* search_next downwards from the line extra, the outcome of
\* query_distance_to_below_n_lines(offset, 1), lies below the window
SearchedBelow(self, the_finder, extra) ==
  IF extra.panic THEN ManagerPanic(extra.doc, self)
  ELSE Searched(self,
         query_distance_to_next_match(extra.doc,
           self.window.offset + extra.ret, SearchPattern(the_finder)),
         extra.ret, "Down")

\* Manager::search_next
search_next(doc, self, the_finder, direction, from_next_event) ==
  IF direction = "Up"
  THEN Searched(self,
         query_distance_to_prev_match(doc, self.window.offset,
                                      SearchPattern(the_finder)),
         0, direction)
  ELSE IF from_next_event
       THEN SearchedBelow(self, the_finder,
              query_distance_to_below_n_lines(doc, self.window.offset, 1))
       ELSE Searched(self,
              query_distance_to_next_match(doc, self.window.offset,
                                           SearchPattern(the_finder)),
              0, direction)

\* Document::update_docsize_and_lastline on a file that has not changed:
\* nothing is updated
update_docsize_and_lastline(doc) == Ok(doc, FALSE)

\* seek_to_end once the document has said whether it was updated and how
\* far above the last line the window starts
SoughtToEnd(self, document_updated, r) ==
  IF r.panic THEN ManagerPanic(r.doc, self)
  ELSE ManagerOk(r.doc,
         [self EXCEPT
            !.need_rerender = document_updated,
            !.window = set_offset(@, SatSub(last_line_start_offset(r.doc),
                                           r.ret))])

\* Manager::seek_to_end
seek_to_end(doc, self) ==
  SoughtToEnd(self, update_docsize_and_lastline(doc).ret,
    query_distance_to_above_n_lines(update_docsize_and_lastline(doc).doc,
      last_line_start_offset(update_docsize_and_lastline(doc).doc),
      SatSub(self.window.height, 1)))

\* on_jump_to_timestamp_event once the document has answered r
JumpedToTimestamp(self, r) ==
  IF r.panic THEN ManagerPanic(r.doc, self)
  ELSE IF IsSome(r.ret)
       THEN ManagerOk(r.doc,
              [self EXCEPT !.window = set_offset(@, Unwrap(r.ret))])
       ELSE ManagerOk(r.doc,
              set_oneoff_error_text(self, "Cannot jump to timestamp"))

\* Manager::on_jump_to_timestamp_event(Enter(content)); time is what
\* parse_log_timestamp made of the content, None for no time
on_jump_to_timestamp_event(doc, self, time) ==
  IF IsSome(time)
  THEN JumpedToTimestamp(self, query_offset_by_timestamp(doc, Unwrap(time)))
  ELSE ManagerOk(doc, set_oneoff_error_text(self, "Invalid timestamp"))

\* Manager::on_jump_by_lines_event(Enter(content)); step is
\* content.parse::<usize>(), None for Err
on_jump_by_lines_event(doc, self, direction, step) ==
  IF IsSome(step)
  THEN on_window_move_event(doc, self, direction, Unwrap(step))
  ELSE ManagerOk(doc, set_oneoff_error_text(self, "Invalid line count"))

\* a new_bookmark that keeps what the name stood for
new_bookmark_keeping(bookmarks, name, offset, line) ==
  IF \E bookmark \in bookmarks : bookmark.name = name THEN bookmarks
  ELSE bookmarks \cup {[name |-> name, offset |-> offset, line |-> line]}

\* BookmarkStore::new_bookmark: an insert into a map
new_bookmark(bookmarks, name, offset, line) ==
  {bookmark \in bookmarks : bookmark.name # name}
    \cup {[name |-> name, offset |-> offset, line |-> line]}

\* the bookmark is stored with lines[0] of query_lines(offset, 1)
Bookmarked(self, name, r) ==
  IF r.panic \/ r.ret = << >> THEN ManagerPanic(r.doc, self)
  ELSE ManagerOk(r.doc,
         set_oneoff_error_text(
           [self EXCEPT !.bookmarks =
              new_bookmark(@, name, self.window.offset, r.ret[1])],
           "Bookmark saved"))

\* Manager::on_new_bookmark_event(Enter(content))
on_new_bookmark_event(doc, self, content) ==
  IF Len(content) > BOOKMARK_NAME_MAX_LEN
  THEN ManagerOk(doc, set_oneoff_error_text(self, "Bookmark name too long"))
  ELSE Bookmarked(self, content, query_lines(doc, self.window.offset, 1))

\* Manager::on_bookmark_menu_event(Enter) with the bookmark under the
\* cursor of the menu, None when the menu is empty
on_bookmark_menu_event(doc, self, chosen) ==
  IF IsSome(chosen)
  THEN ManagerOk(doc,
         [self EXCEPT !.window = set_offset(@, Unwrap(chosen).offset)])
  ELSE ManagerOk(doc, self)

\* Manager::ensure_consistency after a handler with outcome r, that is
\* assert!(offset <= last_line_start_offset) with the outcome checked of
\* assert_offset_is_at_line_start; pc tells that the program ended here
Consistent(r, checked) ==
  IF ~(r.manager.window.offset <= last_line_start_offset(r.doc))
  THEN ManagerPanic(r.doc, [r.manager EXCEPT !.pc = "ensure_consistency"])
  ELSE IF r.manager.window.offset < last_line_start_offset(r.doc)
       THEN [panic |-> checked.panic, doc |-> checked.doc,
             manager |-> IF checked.panic
                         THEN [r.manager EXCEPT !.pc = "ensure_consistency"]
                         ELSE r.manager]
       ELSE r

ensure_consistency(r) ==
  IF r.panic THEN r
  ELSE Consistent(r,
         assert_offset_is_at_line_start(r.doc, r.manager.window.offset))

\* some line of the frame makes attach_render_scheme loop for ever
FrameHangs(the_finder, lines) ==
  \E i \in 1 .. Len(lines) :
    /\ can_pass_advance_action(the_finder, lines[i])
    /\ attach_render_scheme(the_finder, lines[i]).hang

\* the files the controller is run on: their lines are made of one letter
ManagerFiles == BoundedSeq({NL, Min(Letters)}, MaxManagerFileLen)

\* the chunk sizes the controller is run with: the smallest, for which
\* lines are long, and the largest
ManagerChunkSizes == {Min(ChunkSizes), Max(ChunkSizes)}

\* main up to the loop of run: raw mode is on, and either the file could
\* not be opened, on which main returns the error, or Manager::new has
\* built the document and the window
InitManager ==
  /\ last = NoCall
  /\ finder_event_parser = FinderEventParserDefault
  /\ event = NoEvent
  /\ canvas = NoCanvas
  /\ finder = FinderNew
  /\ \/ /\ document = new(<< >>, MaxChunkSize).doc
        /\ status = "exited"
        /\ manager = [ManagerNew(1) EXCEPT !.op = "open_failed"]
     \/ \E reader \in ManagerFiles, chunk_size \in ManagerChunkSizes,
           height \in 1 .. MaxWindowHeight :
          /\ document = new(reader, chunk_size).doc
          /\ status = IF new(reader, chunk_size).panic THEN "panicked"
                      ELSE "running"
          /\ manager = ManagerNew(height)

\* Manager::fill_canvas_and_render once query_lines has answered r: the
\* canvas is filled from the offset of the window and rendered, and the
\* status bar drops its one-off text
Rendered_(r) ==
  /\ document' = r.doc
  /\ status' = IF r.panic THEN "panicked"
               ELSE IF FrameHangs(finder, r.ret) THEN "hung"
               ELSE "running"
  /\ manager' = IF r.panic \/ FrameHangs(finder, r.ret) THEN manager
                ELSE [manager EXCEPT
                        !.rendered = Some(manager.window.offset),
                        !.oneoff_error_text = "",
                        !.pc = "listen",
                        !.op = "Render",
                        !.distance = None]

\* Manager::fill_canvas_and_render
Render ==
  /\ status = "running"
  /\ manager.pc = "render"
  /\ IF ~manager.need_rerender
     THEN /\ manager' = [manager EXCEPT !.need_rerender = TRUE,
                                        !.pc = "listen",
                                        !.op = "Render",
                                        !.distance = None]
          /\ UNCHANGED << document, status >>
     ELSE Rendered_(query_lines(document, manager.window.offset,
                                manager.window.height))
  /\ UNCHANGED << last, finder, finder_event_parser, event, canvas >>

\* listen_and_dispatch_event for the event op with outcome r of its
\* handler, then ensure_consistency, here with outcome checked
Dispatched(op, checked) ==
  /\ document' = checked.doc
  /\ status' = IF checked.panic THEN "panicked" ELSE "running"
  /\ manager' = IF checked.panic THEN [checked.manager EXCEPT !.op = op]
                ELSE [checked.manager EXCEPT !.op = op, !.pc = "render"]

Listening == status = "running" /\ manager.pc = "listen"

\* an event that sets an offset finds room in the history
Room ==
  manager.window.offset_history.current_index + 1 < MaxManagerHistoryLen

WindowMove ==
  /\ Listening /\ Room
  /\ \E direction \in {"Up", "Down"}, step \in 1 .. MaxStep :
       Dispatched("WindowMove",
         ensure_consistency(
           on_window_move_event(document, manager, direction, step)))
  /\ UNCHANGED << last, finder, finder_event_parser, event, canvas >>

JumpByLines ==
  /\ Listening /\ Room
  /\ \E direction \in {"Up", "Down"},
        step \in {None} \cup {Some(n) : n \in 0 .. MaxStep} :
       Dispatched("JumpByLines",
         ensure_consistency(
           on_jump_by_lines_event(document, manager, direction, step)))
  /\ UNCHANGED << last, finder, finder_event_parser, event, canvas >>

\* Manager::on_search_event(Enter(content)) with the one slot active
Search ==
  /\ Listening /\ Room
  /\ \E direction \in {"Up", "Down"}, content \in Patterns :
       /\ finder' = update_search_pattern(finder, content).finder
       /\ Dispatched("Search",
            ensure_consistency(
              search_next(document, manager,
                          update_search_pattern(finder, content).finder,
                          direction, FALSE)))
  /\ UNCHANGED << last, finder_event_parser, event, canvas >>

SearchNext ==
  /\ Listening /\ Room
  /\ Dispatched("SearchNext",
       ensure_consistency(
         search_next(document, manager, finder, "Down", TRUE)))
  /\ UNCHANGED << last, finder, finder_event_parser, event, canvas >>

SearchPrevious ==
  /\ Listening /\ Room
  /\ Dispatched("SearchPrevious",
       ensure_consistency(
         search_next(document, manager, finder, "Up", TRUE)))
  /\ UNCHANGED << last, finder, finder_event_parser, event, canvas >>

SeekToEnd ==
  /\ Listening /\ Room
  /\ Dispatched("SeekToEnd",
       ensure_consistency(seek_to_end(document, manager)))
  /\ UNCHANGED << last, finder, finder_event_parser, event, canvas >>

SeekToHome ==
  /\ Listening /\ Room
  /\ Dispatched("SeekToHome",
       ensure_consistency(
         ManagerOk(document,
                   [manager EXCEPT !.window = set_offset(@, 0)])))
  /\ UNCHANGED << last, finder, finder_event_parser, event, canvas >>

JumpToTimestamp ==
  /\ Listening /\ Room
  /\ \E time \in {None} \cup {Some(t) : t \in Times} :
       Dispatched("JumpToTimestamp",
         ensure_consistency(
           on_jump_to_timestamp_event(document, manager, time)))
  /\ UNCHANGED << last, finder, finder_event_parser, event, canvas >>

NewBookmark ==
  /\ Listening
  /\ \E content \in BookmarkNames :
       Dispatched("NewBookmark",
         ensure_consistency(
           on_new_bookmark_event(document, manager, content)))
  /\ UNCHANGED << last, finder, finder_event_parser, event, canvas >>

GotoBookmark ==
  /\ Listening /\ Room
  /\ \E chosen \in IF manager.bookmarks = {} THEN {None}
                   ELSE {Some(bookmark) : bookmark \in manager.bookmarks} :
       Dispatched("GotoBookmark",
         ensure_consistency(
           on_bookmark_menu_event(document, manager, chosen)))
  /\ UNCHANGED << last, finder, finder_event_parser, event, canvas >>

Undo ==
  /\ Listening
  /\ Dispatched("Undo",
       ensure_consistency(
         ManagerOk(document,
           [manager EXCEPT !.window = goto_previous_offset(@)])))
  /\ UNCHANGED << last, finder, finder_event_parser, event, canvas >>

Redo ==
  /\ Listening
  /\ Dispatched("Redo",
       ensure_consistency(
         ManagerOk(document,
           [manager EXCEPT !.window = goto_next_offset(@)])))
  /\ UNCHANGED << last, finder, finder_event_parser, event, canvas >>

\* Event::Exit: after the consistency check run returns Ok and main turns
\* raw mode off
Exit ==
  /\ Listening
  /\ document' = ensure_consistency(ManagerOk(document, manager)).doc
  /\ status' = IF ensure_consistency(ManagerOk(document, manager)).panic
               THEN "panicked" ELSE "exited"
  /\ manager' =
       [ensure_consistency(ManagerOk(document, manager)).manager EXCEPT
          !.op = "Exit",
          !.raw_mode = ensure_consistency(ManagerOk(document, manager)).panic]
  /\ UNCHANGED << last, finder, finder_event_parser, event, canvas >>

NextManager ==
  \/ Render
  \/ WindowMove
  \/ JumpByLines
  \/ Search
  \/ SearchNext
  \/ SearchPrevious
  \/ SeekToEnd
  \/ SeekToHome
  \/ JumpToTimestamp
  \/ NewBookmark
  \/ GotoBookmark
  \/ Undo
  \/ Redo
  \/ Exit

SpecManager == InitManager /\ [][NextManager]_vars

\* the controller with the events of moving, searching, undo and redo
NextSearch ==
  \/ Render
  \/ WindowMove
  \/ Search
  \/ SearchNext
  \/ SearchPrevious
  \/ Undo
  \/ Redo

SpecSearch == InitManager /\ [][NextSearch]_vars

\* the controller with the events of moving, bookmarks, undo and redo
NextBookmark ==
  \/ Render
  \/ WindowMove
  \/ NewBookmark
  \/ GotoBookmark
  \/ Undo
  \/ Redo

SpecBookmark == InitManager /\ [][NextBookmark]_vars

(***************************************************************************)
(* Patterns that are no regex.  The byte Paren is '(' : a pattern that     *)
(* holds it does not compile as a regex, and as a raw pattern it is a byte *)
(* no line of Lines holds.                                                 *)
(***************************************************************************)
Paren == 3

RegexPatterns == BoundedSeq(Letters \cup {Paren}, MaxPatternLen)

\* Regex::new(pattern) is Ok
RegexCompiles(pattern) == \A i \in 1 .. Len(pattern) : pattern[i] # Paren

\* FinderSlot::find_range_of_match panics: Regex::new(pattern).unwrap()
FindPanics(slot) ==
  /\ IsSome(slot.pattern)
  /\ slot.pattern_type = "Regex"
  /\ ~RegexCompiles(Unwrap(slot.pattern))

\* the one active slot of the finder
ActiveSlot(the_finder) ==
  the_finder.slots[array_index_from_slot_index(Min(the_finder.active_slots))]

\* a finder with its one active slot, of either type and without a pattern
InitRegex ==
  /\ document = new(<< >>, MaxChunkSize).doc
  /\ status = "running"
  /\ last = NoCall
  /\ \E pattern_type \in {"Raw", "Regex"} :
       finder = [FinderNew EXCEPT
                   !.slots[array_index_from_slot_index(
                             Min(FinderNew.active_slots))].pattern_type
                      = pattern_type]
  /\ finder_event_parser = FinderEventParserDefault
  /\ event = NoEvent
  /\ canvas = NoCanvas
  /\ manager = NoManager

\* Manager::on_search_event(Enter(content)) up to the first line the search
\* tries: the pattern is set and can_satisfy_active_search_patterns(line)
\* is asked; passed tells whether the line satisfied it
RegexSearch ==
  /\ status = "running"
  /\ \E content \in RegexPatterns, line \in Lines :
       /\ finder' = update_search_pattern(finder, content).finder
       /\ IF FindPanics(ActiveSlot(update_search_pattern(finder, content).finder))
          THEN status' = "panicked" /\ UNCHANGED canvas
          ELSE /\ UNCHANGED status
               /\ canvas' =
                    [filled |-> TRUE, line |-> line,
                     passed |-> can_satisfy_active_search_patterns(
                                  update_search_pattern(finder, content).finder,
                                  line),
                     attached |-> None, cut |-> None]
  /\ event' = [type |-> "Search", index |-> 0,
               active_slots |-> finder.active_slots]
  /\ UNCHANGED << document, last, finder_event_parser, manager >>

\* Manager::fill_canvas_and_render for one raw line, with the pattern the
\* last search has set
RegexHighlight ==
  /\ status = "running"
  /\ IsSome(ActiveSlot(finder).pattern)
  /\ \E line \in Lines :
       IF FindPanics(ActiveSlot(finder))
       THEN status' = "panicked" /\ UNCHANGED canvas
       ELSE Attached(line, attach_render_scheme(finder, line))
  /\ event' = [type |-> "Highlight", index |-> 0,
               active_slots |-> finder.active_slots]
  /\ UNCHANGED << document, last, finder, finder_event_parser, manager >>

\* the key that toggles the pattern type of the active slot
RegexToggle ==
  /\ status = "running"
  /\ finder' = toggle_pattern_type(finder).finder
  /\ event' = [type |-> "TogglePatternType", index |-> 0,
               active_slots |-> finder.active_slots]
  /\ UNCHANGED << document, status, last, finder_event_parser, canvas,
                  manager >>

NextRegex ==
  \/ RegexSearch
  \/ RegexHighlight
  \/ RegexToggle

SpecRegex == InitRegex /\ [][NextRegex]_vars

(***************************************************************************)
(* build_chunk on its own, as test_build_chunk calls it: last holds the    *)
(* arguments and, once the call has returned, the chunk.                   *)
(***************************************************************************)
InitChunk ==
  /\ document = new(<< >>, MaxChunkSize).doc
  /\ status = "running"
  /\ \E content \in Files, content_offset \in 0 .. MaxOffset,
        drop_first, drop_last \in BOOLEAN :
       last = [op |-> "none", content |-> content,
               content_offset |-> content_offset,
               drop_first |-> drop_first, drop_last |-> drop_last,
               chunk |-> None]
  /\ finder = NoFinder
  /\ finder_event_parser = FinderEventParserDefault
  /\ event = NoEvent
  /\ canvas = NoCanvas
  /\ manager = NoManager

\* the call has returned built, or has panicked
Built(built) ==
  /\ status' = IF built.panic THEN "panicked" ELSE "running"
  /\ last' = [last EXCEPT !.op = "build_chunk",
                          !.chunk = IF built.panic THEN None
                                    ELSE Some(built.chunk)]

BuildChunk ==
  /\ status = "running"
  /\ last.op = "none"
  /\ Built(build_chunk(last.content, last.content_offset, last.drop_first,
                       last.drop_last))
  /\ UNCHANGED << document, finder, finder_event_parser, event, canvas,
                  manager >>

NextChunk == BuildChunk

SpecChunk == InitChunk /\ [][NextChunk]_vars

(***************************************************************************)
(* The file as a sequence of lines, for stating the properties.            *)
(***************************************************************************)
\* the start offsets of the lines of a file; an empty file has one empty
\* line, and a final newline starts no further line
FileLineStarts(reader) ==
  IF reader = << >> THEN {0}
  ELSE {o \in 0 .. Len(reader) - 1 : o = 0 \/ reader[o] = NL}

\* one past the last byte of the body of the line that starts at o
LineBodyEnd(reader, o) ==
  LET pos == FindNL(reader, o)
  IN IF IsSome(pos) THEN Unwrap(pos) ELSE Len(reader)

\* the body of the line that starts at o
LineBody(reader, o) == Slice(reader, o, LineBodyEnd(reader, o))

\* the start of the final logical line
FinalLineStart(reader) == Max(FileLineStarts(reader))

\* the final logical line, with its newline when the file ends in one
FinalLine(reader) == Slice(reader, FinalLineStart(reader), Len(reader))

RECURSIVE RowsWithNewlines(_)
\* the rows, each followed by a newline
RowsWithNewlines(rows) ==
  IF rows = << >> THEN << >>
  ELSE Head(rows) \o << NL >> \o RowsWithNewlines(Tail(rows))

RECURSIVE FileLinesFrom(_, _)
\* the bodies of the lines of the file from the line start o through the
\* last line
FileLinesFrom(reader, o) ==
  LET pos == FindNL(reader, o)
  IN IF IsSome(pos) /\ Unwrap(pos) + 1 < Len(reader)
     THEN << LineBody(reader, o) >> \o FileLinesFrom(reader, Unwrap(pos) + 1)
     ELSE << LineBody(reader, o) >>

\* the first n elements of a sequence
Take(seq, n) == SubSeq(seq, 1, MinOf(n, Len(seq)))

\* every line of the file, with its newline when it has one, is at most
\* half the chunk size long
ShortLines(doc) ==
  \A o \in FileLineStarts(doc.reader) :
    LET pos == FindNL(doc.reader, o)
        line_end == IF IsSome(pos) THEN Unwrap(pos) + 1 ELSE Len(doc.reader)
    IN line_end - o <= doc.default_chunk_size \div 2

\* the lines before o are contiguous and end at o, so the sum of their
\* len + 1 is the distance from the first of them to o
ExpectedDistanceAbove(reader, o, n) ==
  LET before == {s \in FileLineStarts(reader) :
                   /\ s < o
                   /\ Cardinality({t \in FileLineStarts(reader) :
                                     s <= t /\ t < o}) <= n}
  IN IF before = {} THEN 0 ELSE o - Min(before)

\* the distance from o to the first line at or after o that contains p
ExpectedNextMatch(reader, o, p) ==
  LET matching == {s \in FileLineStarts(reader) :
                     s >= o /\ Contains(LineBody(reader, s), p)}
  IN IF matching = {} THEN None ELSE Some(Min(matching) - o)

\* the distance from o back to the start of the nearest line strictly
\* before o that contains p
ExpectedPrevMatch(reader, o, p) ==
  LET matching == {s \in FileLineStarts(reader) :
                     s < o /\ Contains(LineBody(reader, s), p)}
  IN IF matching = {} THEN None ELSE Some(o - Max(matching))

\* the starts of the full lines: every line but the last
FullLineStarts(reader) ==
  FileLineStarts(reader) \ {FinalLineStart(reader)}

\* the timestamps of the full lines that carry one never decrease
TimestampsNonDecreasing(reader) ==
  \A s, t \in FullLineStarts(reader) :
    (/\ s < t
     /\ IsSome(parse_and_remainder(LineBody(reader, s), "fmt"))
     /\ IsSome(parse_and_remainder(LineBody(reader, t), "fmt")))
      => Unwrap(parse_and_remainder(LineBody(reader, s), "fmt"))
           <= Unwrap(parse_and_remainder(LineBody(reader, t), "fmt"))

\* every full line carries a timestamp
EveryFullLineTimestamped(reader) ==
  \A s \in FullLineStarts(reader) :
    IsSome(parse_and_remainder(LineBody(reader, s), "fmt"))

\* the starts of the full lines with a timestamp at or after the target
FullLinesReaching(reader, target) ==
  {s \in FullLineStarts(reader) :
     /\ IsSome(parse_and_remainder(LineBody(reader, s), "fmt"))
     /\ Unwrap(parse_and_remainder(LineBody(reader, s), "fmt")) >= target}

(***************************************************************************)
(* C1: after Document initialization and after any sequence of load_chunk  *)
(* calls and queries, every chunk has offset_begin < offset_end and        *)
(* consecutive chunks c, d satisfy c.offset_end <= d.offset_begin.         *)
(***************************************************************************)
ChunksSortedNonOverlapping ==
  /\ \A i \in 1 .. Len(document.chunks) :
       document.chunks[i].offset_begin < document.chunks[i].offset_end
  /\ \A i \in 1 .. Len(document.chunks) - 1 :
       document.chunks[i].offset_end <= document.chunks[i + 1].offset_begin

\* a load_chunk call has put a chunk between two others
WitnessChunksSorted ==
  /\ last.op = "load_chunk"
  /\ last.distance = Some(1)
  /\ Len(document.chunks) >= 3

(***************************************************************************)
(* C2: for every chunk held, offset_begin is a line start of the file and  *)
(* the rows are exactly the complete lines of the file in                  *)
(* [offset_begin, offset_end), each followed by its newline in the file;   *)
(* hence offset_end - offset_begin is the sum of len(row) + 1.             *)
(***************************************************************************)
ChunkRowsAreFileLines ==
  \A i \in 1 .. Len(document.chunks) :
    LET chunk == document.chunks[i]
    IN /\ chunk.offset_begin = 0 \/ document.reader[chunk.offset_begin] = NL
       /\ chunk.offset_end <= document.document_size
       /\ \A j \in 1 .. Len(chunk.rows) :
            \A k \in 1 .. Len(chunk.rows[j]) : chunk.rows[j][k] # NL
       /\ RowsWithNewlines(chunk.rows)
            = Slice(document.reader, chunk.offset_begin, chunk.offset_end)
       /\ chunk.offset_end - chunk.offset_begin = SumLenPlus1(chunk.rows)

\* a load whose window began and ended inside lines has produced a chunk
\* of two rows, shaved at both ends
WitnessChunkRows ==
  /\ last.op = "load_chunk"
  /\ IsSome(last.distance)
  /\ LET chunk == document.chunks[Unwrap(last.distance) + 1]
     IN /\ chunk.offset_begin > last.offset
        /\ chunk.offset_end < last.offset_end
        /\ Len(chunk.rows) >= 2

(***************************************************************************)
(* C3: after initialization and after any later call, last_line is present *)
(* and is the final logical line of the file (with its newline when the    *)
(* file ends in one), last_line_start_offset() = document_size -           *)
(* len(last_line), and no chunk ends beyond last_line_start_offset().      *)
(***************************************************************************)
LastLineIsFinalLine ==
  status = "running" =>
    /\ IsSome(document.last_line)
    /\ Unwrap(document.last_line) = FinalLine(document.reader)
    /\ last_line_start_offset(document) = FinalLineStart(document.reader)
    /\ last_line_start_offset(document)
         = document.document_size - Len(Unwrap(document.last_line))
    /\ \A i \in 1 .. Len(document.chunks) :
         document.chunks[i].offset_end <= last_line_start_offset(document)

\* a later load has covered the end of a file that ends in a newline, set
\* last_line again and added a chunk that ends where the last line starts
WitnessLastLine ==
  /\ status = "running"
  /\ last.op = "load_chunk"
  /\ last.offset_end >= document.document_size
  /\ IsSome(last.distance)
  /\ document.chunks[Unwrap(last.distance) + 1].offset_end
       = last_line_start_offset(document)
  /\ Len(Unwrap(document.last_line)) >= 2
  /\ document.document_size > 0
  /\ document.reader[document.document_size] = NL

(***************************************************************************)
(* C4: in a file whose lines, newline included, are at most half the chunk *)
(* size long, query_lines(o, n) for a line start o <= last_line_start_     *)
(* offset() returns exactly the first min(n, k) lines of the file from o   *)
(* (k lines remain from o through the last line), whatever chunks earlier  *)
(* queries loaded; the last line comes without its newline and a final     *)
(* newline yields no extra empty line.                                     *)
(***************************************************************************)
QueryLinesReturnsFileLines ==
  (ShortLines(document) /\ last.op = "query_lines") =>
     /\ status = "running"
     /\ last.lines = Take(FileLinesFrom(document.reader, last.offset),
                          last.line_count)

\* query_lines on a file that ends in a newline has run through several
\* chunks and returned every line from the offset on, the last line included
WitnessQueryLines ==
  /\ ShortLines(document)
  /\ last.op = "query_lines"
  /\ status = "running"
  /\ document.document_size > 0
  /\ document.reader[document.document_size] = NL
  /\ Len(document.chunks) >= 2
  /\ Len(last.lines) >= 3
  /\ Len(last.lines) = Len(FileLinesFrom(document.reader, last.offset))

(***************************************************************************)
(* C5: a query_lines(o, n) call that has returned a sequence returns the   *)
(* same sequence when it is made again with the same arguments, and no     *)
(* query_lines call changes document_size or last_line.                    *)
(***************************************************************************)
QueryLinesIdempotent ==
  [][(last'.op = "query_lines" /\ status' = "running") =>
       /\ document'.document_size = document.document_size
       /\ document'.last_line = document.last_line
       /\ LET again == query_lines(document', last'.offset, last'.line_count)
          IN /\ ~again.panic
             /\ again.ret = last'.lines
             /\ again.doc.document_size = document.document_size
             /\ again.doc.last_line = document.last_line]_vars

\* a query_lines call has loaded chunks, the one before the last line
\* among them, and returned lines
WitnessQueryLinesIdempotent ==
  /\ last.op = "query_lines"
  /\ status = "running"
  /\ Len(last.lines) >= 2
  /\ Len(document.chunks) >= 2
  /\ document.chunks[Len(document.chunks)].offset_end
       = last_line_start_offset(document)
  /\ document.chunks[1].offset_begin = last.offset

(***************************************************************************)
(* C6: for every line start o < last_line_start_offset() and every cache   *)
(* state, get_or_load_chunk_by_offset(o) returns a chunk with              *)
(* offset_begin <= o < offset_end, also when the line at o is longer than  *)
(* half the chunk size.                                                    *)
(***************************************************************************)
GetOrLoadReturnsCoveringChunk ==
  last.op = "assert_offset_is_at_line_start" =>
    /\ status = "running"
    /\ IsSome(last.chunk)
    /\ Unwrap(last.chunk).offset_begin <= last.offset
    /\ last.offset < Unwrap(last.chunk).offset_end

(***************************************************************************)
(* C7: creating a Document succeeds for every file; for a non-empty file   *)
(* last_line is the final logical line, also when that line is longer than *)
(* the window of the initial load; for an empty file last_line is the      *)
(* empty string and no chunk is loaded.                                    *)
(***************************************************************************)
NewSucceedsForEveryFile ==
  last.op = "new" =>
    /\ status = "running"
    /\ document.last_line = Some(FinalLine(document.reader))
    /\ document.document_size = 0 =>
         document.last_line = Some(<< >>) /\ document.chunks = << >>

(***************************************************************************)
(* C8: distance composition: for every line start o and all a, b >= 0,     *)
(* with d_a = query_distance_to_below_n_lines(o, a),                       *)
(* d_a + query_distance_to_below_n_lines(o + d_a, b)                       *)
(*   = query_distance_to_below_n_lines(o, a + b), whatever chunks are      *)
(* loaded.                                                                 *)
(***************************************************************************)
DistanceComposition ==
  (last.op = "query_distance_to_below_n_lines" /\ status = "running") =>
     \A b \in LineCounts :
       LET d_a == Unwrap(last.distance)
           second == query_distance_to_below_n_lines(
                       document, last.offset + d_a, b)
           whole == query_distance_to_below_n_lines(
                      second.doc, last.offset, last.line_count + b)
       IN /\ ~second.panic
          /\ ~whole.panic
          /\ d_a + second.ret = whole.ret

(***************************************************************************)
(* C9: for every line start o <= last_line_start_offset() and every n,     *)
(* query_distance_to_above_n_lines(o, n) is the sum of len + 1 over the    *)
(* min(n, m) lines immediately before o (m lines precede o), also for      *)
(* o = last_line_start_offset() and for empty lines.                       *)
(***************************************************************************)
DistanceAboveIsSumOfLines ==
  last.op = "query_distance_to_above_n_lines" =>
    /\ status = "running"
    /\ last.distance = Some(ExpectedDistanceAbove(document.reader,
                                                  last.offset,
                                                  last.line_count))

(***************************************************************************)
(* C10: query_distance_to_next_match(o, p) for a line start o returns      *)
(* Some(d) exactly when a line at or after o, the last line included,      *)
(* matches p, and then o + d is the start of the first such line; it       *)
(* returns None exactly when no line from o through the last line matches. *)
(***************************************************************************)
NextMatchIsFirstMatchingLine ==
  last.op = "query_distance_to_next_match" =>
    /\ status = "running"
    /\ last.distance = ExpectedNextMatch(document.reader, last.offset,
                                         last.search_pattern)

(***************************************************************************)
(* C11: query_distance_to_prev_match(o, p) for a line start                *)
(* o <= last_line_start_offset() returns Some(d), d > 0, exactly when a    *)
(* line strictly before o matches p, and then o - d is the start of the    *)
(* nearest such line; it returns None when no line before o matches; the   *)
(* line at o is never inspected.                                           *)
(***************************************************************************)
PrevMatchIsNearestMatchingLine ==
  last.op = "query_distance_to_prev_match" =>
    /\ status = "running"
    /\ last.distance = ExpectedPrevMatch(document.reader, last.offset,
                                         last.search_pattern)

(***************************************************************************)
(* C12: when every full line carries a timestamp and the timestamps never  *)
(* decrease, query_offset_by_timestamp returns Some(o), o the start of the *)
(* first full line whose timestamp is at least the target, or              *)
(* last_line_start_offset() when there is none, whatever chunks were       *)
(* loaded before and wherever the midpoints of the bisection fall.         *)
(***************************************************************************)
TimestampJumpFindsFirstLine ==
  (/\ last.op = "query_offset_by_timestamp"
   /\ EveryFullLineTimestamped(document.reader)
   /\ TimestampsNonDecreasing(document.reader)) =>
     /\ status = "running"
     /\ last.distance =
          Some(IF FullLinesReaching(document.reader, last.time) = { }
               THEN FinalLineStart(document.reader)
               ELSE Min(FullLinesReaching(document.reader, last.time)))

(***************************************************************************)
(* C13: when the timestamps of the full lines that carry one never         *)
(* decrease and some full line with a timestamp is at or after the target, *)
(* query_offset_by_timestamp returns the start of the first such line,     *)
(* also when other full lines carry no timestamp.                          *)
(***************************************************************************)
TimestampJumpToleratesBareLines ==
  (/\ last.op = "query_offset_by_timestamp"
   /\ TimestampsNonDecreasing(document.reader)
   /\ FullLinesReaching(document.reader, last.time) # { }) =>
     /\ status = "running"
     /\ last.distance =
          Some(Min(FullLinesReaching(document.reader, last.time)))

\* C14: the set of active slots of the Finder is never empty, and a
\* RemoveActiveSlot(d) met when d is the only active slot is refused: the
\* active slots stay as they were and the program keeps running.
ActiveSlotsNeverEmptyRemoveRefused ==
  /\ finder.active_slots # {}
  /\ (event.type = "RemoveActiveSlot" /\ event.active_slots = {event.index})
       => /\ status = "running"
          /\ finder.active_slots = event.active_slots

(***************************************************************************)
(* The filters and the highlights, stated on the slots themselves.         *)
(***************************************************************************)
\* the bytes of pattern stand in line, one after the other
OccursIn(pattern, line) ==
  \E i \in 0 .. Len(line) - Len(pattern) :
    \A j \in 1 .. Len(pattern) : line[i + j] = pattern[j]

\* the array indices of the slots that hold a pattern
SlotsWithPattern == {index \in DOMAIN finder.slots :
                      IsSome(finder.slots[index].pattern)}

SlotsWithAction(advanced_action) ==
  {index \in SlotsWithPattern :
     finder.slots[index].advanced_action = advanced_action}

\* every pattern held is non-empty
PatternsNonEmpty ==
  \A index \in SlotsWithPattern : Unwrap(finder.slots[index].pattern) # << >>

\* every pattern held is raw
PatternsRaw ==
  \A index \in SlotsWithPattern : finder.slots[index].pattern_type = "Raw"

\* the pattern of the slot occurs in the line on the canvas
SlotOccurs(index) ==
  OccursIn(Unwrap(finder.slots[index].pattern), canvas.line)

\* C15: with non-empty raw patterns, a line is filtered out exactly when the
\* pattern of some Fold slot occurs in it, or there are Exclusive slots with
\* patterns and the pattern of none of them occurs in it; active slots and
\* highlight flags play no part, and a line with both a Fold and an
\* Exclusive pattern in it is filtered out.
FilterFollowsFoldAndExclusive ==
  (canvas.filled /\ PatternsNonEmpty /\ PatternsRaw)
    => (canvas.passed <=>
          ~(\/ \E index \in SlotsWithAction("Fold") : SlotOccurs(index)
            \/ /\ SlotsWithAction("Exclusive") # {}
               /\ \A index \in SlotsWithAction("Exclusive") :
                    ~SlotOccurs(index)))

\* a line with the pattern of a Fold slot and that of an Exclusive slot in
\* it, the Fold slot alone active and its highlight off, has been filtered
\* out
WitnessFilterFoldAndExclusive ==
  /\ canvas.filled /\ PatternsNonEmpty /\ PatternsRaw
  /\ ~canvas.passed
  /\ \E fold \in SlotsWithAction("Fold"),
        exclusive \in SlotsWithAction("Exclusive") :
       /\ SlotOccurs(fold) /\ SlotOccurs(exclusive)
       /\ finder.active_slots = {finder.slots[fold].slot_index}
       /\ finder.slots[fold].highlight_flag = "Off"

\* the slot matches the line on the canvas the way FinderSlot matches for
\* search and highlight
SlotMatches(index) ==
  IsSome(find_range_of_match(finder.slots[index], canvas.line))

\* C16: the Fold and Exclusive filters match the pattern of each slot by the
\* pattern type of the slot: a Regex slot decides by a regex match, as search
\* and highlighting do, not by the pattern standing in the line as it is.
FilterUsesPatternType ==
  (canvas.filled /\ PatternsNonEmpty)
    => (canvas.passed <=>
          ~(\/ \E index \in SlotsWithAction("Fold") : SlotMatches(index)
            \/ /\ SlotsWithAction("Exclusive") # {}
               /\ \A index \in SlotsWithAction("Exclusive") :
                    ~SlotMatches(index)))

\* C17: empty patterns do not contribute to the filters: while every Fold or
\* Exclusive slot has no pattern or the empty one, no line is filtered out.
FilterIgnoresEmptyPatterns ==
  (/\ canvas.filled
   /\ \A index \in SlotsWithAction("Fold") \cup SlotsWithAction("Exclusive") :
        Unwrap(finder.slots[index].pattern) = << >>)
    => canvas.passed

\* the array indices of the slots that highlight: flag on, pattern held
SlotsHighlighting ==
  {index \in SlotsWithPattern : finder.slots[index].highlight_flag = "On"}

\* the matches of a slot in a line: the leftmost match, then the leftmost
\* one after its end, and so on
RECURSIVE MatchesFrom(_, _, _)
MatchesAfter(slot, line, from_pos, found) ==
  IF ~IsSome(found) THEN {}
  ELSE IF Unwrap(found).end = 0 THEN {Range(from_pos, from_pos)}
  ELSE {Range(Unwrap(found).start + from_pos, Unwrap(found).end + from_pos)}
       \cup MatchesFrom(slot, line, Unwrap(found).end + from_pos)

MatchesFrom(slot, line, from_pos) ==
  MatchesAfter(slot, line, from_pos,
               find_range_of_match(slot, SubSeq(line, from_pos + 1, Len(line))))

\* the place of a slot in the order of priority: active slots before the
\* others, and slot numbers in the order 1, 2, ..., 9, 0
PlaceOf(slot_index) ==
  (IF slot_index \in finder.active_slots THEN 0 ELSE FINDER_SLOT_COUNT)
  + (IF slot_index = 0 THEN 9 ELSE slot_index - 1)

\* the ranges with their schemes on the line of the canvas
SchemesOnCanvas ==
  {Unwrap(canvas.attached).render_schemes[i] :
     i \in 1 .. Len(Unwrap(canvas.attached).render_schemes)}

\* C18: every range on the line is a match of a highlighting slot in the
\* colour of that slot, and a match of a highlighting slot is on the line
\* exactly when no range kept for a slot earlier in the order (active slots
\* first, then the others, each in the order 1, 2, ..., 9, 0) overlaps it:
\* the earlier slot wins an overlap, and the other matches of the later slot
\* stay.
PriorityKeepsEarlierSlot ==
  (canvas.filled /\ IsSome(canvas.attached) /\ PatternsNonEmpty)
    => /\ Cardinality(SchemesOnCanvas)
            = Len(Unwrap(canvas.attached).render_schemes)
       /\ \A kept \in SchemesOnCanvas :
            \E index \in SlotsHighlighting :
              /\ kept.scheme = finder.slots[index].slot_index
              /\ kept.range \in MatchesFrom(finder.slots[index], canvas.line, 0)
       /\ \A index \in SlotsHighlighting :
            \A range \in MatchesFrom(finder.slots[index], canvas.line, 0) :
              ([range |-> range, scheme |-> finder.slots[index].slot_index]
                 \in SchemesOnCanvas)
              <=> ~\E kept \in SchemesOnCanvas :
                     /\ PlaceOf(kept.scheme)
                          < PlaceOf(finder.slots[index].slot_index)
                     /\ ranges_have_overlap(kept.range, range)

\* slot 0, the last of the array, is the active one and has a range on the
\* line; slot 1, the first of the array, has a match under that range, which
\* is not on the line, and another match, which is
WitnessPriority ==
  /\ canvas.filled /\ IsSome(canvas.attached) /\ PatternsNonEmpty
  /\ finder.active_slots = {0}
  /\ {array_index_from_slot_index(0), array_index_from_slot_index(1)}
       \subseteq SlotsHighlighting
  /\ \E kept \in SchemesOnCanvas :
       /\ kept.scheme = 0
       /\ \E dropped, other \in
               MatchesFrom(finder.slots[array_index_from_slot_index(1)],
                           canvas.line, 0) :
            /\ ranges_have_overlap(kept.range, dropped)
            /\ [range |-> dropped, scheme |-> 1] \notin SchemesOnCanvas
            /\ [range |-> other, scheme |-> 1] \in SchemesOnCanvas

\* the ranges of a line lie within its content, no two of them overlap, and
\* render does not panic on it
SchemesDisjointWithin(line_with_scheme) ==
  /\ \A i \in 1 .. Len(line_with_scheme.render_schemes) :
       /\ line_with_scheme.render_schemes[i].range.start
            < line_with_scheme.render_schemes[i].range.end
       /\ line_with_scheme.render_schemes[i].range.end
            <= Len(line_with_scheme.content)
  /\ \A i, j \in 1 .. Len(line_with_scheme.render_schemes) :
       i # j => ~ranges_have_overlap(
                   line_with_scheme.render_schemes[i].range,
                   line_with_scheme.render_schemes[j].range)
  /\ ~render(line_with_scheme).panic

\* C19: with non-empty patterns, on the line attach_render_scheme builds and
\* on every substr of it the ranges are pairwise non-overlapping and within
\* the content, and the assertion of render holds.
SchemesDisjointOnEverySubstr ==
  (canvas.filled /\ IsSome(canvas.attached) /\ PatternsNonEmpty)
    => /\ SchemesDisjointWithin(Unwrap(canvas.attached))
       /\ \A width_range \in WidthRanges :
            /\ ~SubstrPanics(Unwrap(canvas.attached), width_range)
            /\ SchemesDisjointWithin(
                 substr(Unwrap(canvas.attached), width_range))

\* a line with the ranges of two slots, and a substr of it that keeps one of
\* them, moved to its start, and leaves the other out
WitnessSchemesDisjoint ==
  /\ canvas.filled /\ IsSome(canvas.attached) /\ PatternsNonEmpty
  /\ Len(Unwrap(canvas.attached).render_schemes) = 2
  /\ Unwrap(canvas.attached).render_schemes[1].scheme
       # Unwrap(canvas.attached).render_schemes[2].scheme
  /\ \E width_range \in WidthRanges :
       /\ width_range.start > 0
       /\ Len(substr(Unwrap(canvas.attached), width_range).render_schemes) = 1
       /\ substr(Unwrap(canvas.attached), width_range)
            .render_schemes[1].range.start = 0

\* the range b of a substr taken by a, as a range of the line itself
Composite(a, b) == Range(a.start + b.start, a.start + b.end)

\* C20 as stated: for all ranges a and b, line.substr(a).substr(b) has the
\* content and the schemes of line.substr(a.start + b.start ..
\* a.start + b.end), also when b reaches beyond the length of a.
SubstrComposes ==
  IsSome(canvas.cut)
    => \A b \in WidthRanges :
         substr(Unwrap(canvas.attached), b)
           = substr(Unwrap(canvas.cut).source,
                    Composite(Unwrap(canvas.cut).width_range, b))

\* C20: for all ranges a and b with b ending within the length of a,
\* line.substr(a).substr(b) has the content and the schemes of
\* line.substr(a.start + b.start .. a.start + b.end).
SubstrComposesWithin ==
  IsSome(canvas.cut)
    => \A b \in WidthRanges :
         b.end <= Unwrap(canvas.cut).width_range.end
                    - Unwrap(canvas.cut).width_range.start
           => substr(Unwrap(canvas.attached), b)
                = substr(Unwrap(canvas.cut).source,
                         Composite(Unwrap(canvas.cut).width_range, b))

\* a substr taken past the start of a line, and a range b within it whose
\* substr still has content and a scheme
WitnessSubstrComposes ==
  /\ IsSome(canvas.cut)
  /\ Unwrap(canvas.cut).width_range.start > 0
  /\ \E b \in WidthRanges :
       /\ b.start < b.end
       /\ b.end <= Unwrap(canvas.cut).width_range.end
                     - Unwrap(canvas.cut).width_range.start
       /\ substr(Unwrap(canvas.attached), b).content # << >>
       /\ substr(Unwrap(canvas.attached), b).render_schemes # << >>

\* the schemes that start before w, each ending at w at the latest
RECURSIVE ClippedTo(_, _, _)
ClippedTo(render_schemes, w, k) ==
  IF k > Len(render_schemes) THEN << >>
  ELSE (IF render_schemes[k].range.start >= w THEN << >>
        ELSE << [render_schemes[k] EXCEPT
                   !.range.end = IF @ > w THEN w ELSE @] >>)
       \o ClippedTo(render_schemes, w, k + 1)

\* C21: truncate(w) leaves the first w bytes of the content and the schemes
\* clipped to [0, w): a scheme starting at or beyond w is dropped, one that
\* straddles w keeps its part before w, and so every range that remains lies
\* within the truncated content.
TruncateClipsSchemes ==
  IsSome(canvas.cut)
    => /\ Unwrap(canvas.attached).content
            = SubSeq(Unwrap(canvas.cut).source.content, 1,
                     MinOf(Unwrap(canvas.cut).width_range.end,
                           Len(Unwrap(canvas.cut).source.content)))
       /\ Unwrap(canvas.attached).render_schemes
            = ClippedTo(Unwrap(canvas.cut).source.render_schemes,
                        Unwrap(canvas.cut).width_range.end, 1)
       /\ \A i \in 1 .. Len(Unwrap(canvas.attached).render_schemes) :
            Unwrap(canvas.attached).render_schemes[i].range.end
              <= Len(Unwrap(canvas.attached).content)

\* the entries and the cursor of the window's offset history, now and
\* before the last operation
Offsets == manager.window.offset_history.offsets

Cursor == manager.window.offset_history.current_index

OffsetsBefore == manager.before.offset_history.offsets

CursorBefore == manager.before.offset_history.current_index

\* C23: the offset history is a linear undo/redo list that starts as [0]
\* with the cursor on it: the window offset is always the entry under the
\* cursor; set_offset and move_offset_by drop the entries after the cursor,
\* append the new offset and put the cursor on it, so that a redo then
\* changes nothing; goto_previous_offset and goto_next_offset keep the
\* entries and move the cursor by one, stopping at the oldest and the newest
\* entry.
OffsetHistoryIsUndoList ==
  /\ manager.window.offset = Offsets[Cursor + 1]
  /\ manager.op = "new" => Offsets = << 0 >> /\ Cursor = 0
  /\ manager.op \in {"set_offset", "move_offset_by"}
       => /\ Offsets = SubSeq(OffsetsBefore, 1, CursorBefore + 1)
                         \o << manager.window.offset >>
          /\ Cursor = Len(Offsets) - 1
          /\ goto_next_offset(manager.window) = manager.window
  /\ manager.op = "goto_previous_offset"
       => /\ Offsets = OffsetsBefore
          /\ Cursor = IF CursorBefore = 0 THEN 0 ELSE CursorBefore - 1
  /\ manager.op = "goto_next_offset"
       => /\ Offsets = OffsetsBefore
          /\ Cursor = IF CursorBefore = Len(OffsetsBefore) - 1
                      THEN CursorBefore ELSE CursorBefore + 1

\* an offset has been set after undos that left two entries after the
\* cursor, which are gone
WitnessOffsetHistory ==
  /\ manager.op \in {"set_offset", "move_offset_by"}
  /\ Len(OffsetsBefore) = 3
  /\ CursorBefore = 0
  /\ Len(Offsets) = 2

\* the events of the controller that set the offset of the window
OffsetEvents ==
  {"WindowMove", "JumpByLines", "Search", "SearchNext", "SearchPrevious",
   "SeekToHome", "SeekToEnd", "JumpToTimestamp", "GotoBookmark", "Undo",
   "Redo"}

\* C22: on an unchanged file, after every event the controller handles the
\* offset of the window is the start of a line, at most
\* last_line_start_offset(), and the consistency check that follows the
\* event does not fail.
WindowOffsetStaysConsistent ==
  /\ manager.pc # "ensure_consistency"
  /\ (status = "running" /\ manager.op \in OffsetEvents)
       => /\ manager.window.offset \in FileLineStarts(document.reader)
          /\ manager.window.offset <= last_line_start_offset(document)

\* C24: raw mode, turned on when the program starts, is off again whenever
\* the program has ended, also when the file could not be opened or the
\* run of the controller ended with an error.
RawModeOffAtExit ==
  status \in {"exited", "panicked"} => ~manager.raw_mode

SearchEvents == {"Search", "SearchNext", "SearchPrevious"}

\* C26: when a search (Enter in the search prompt, n, N) finds no matching
\* line, the offset of the window and its offset history, entries and
\* cursor, are as before the search, and the one-off text of the status bar
\* is 'Not found'.
SearchNotFoundLeavesWindow ==
  [][(/\ manager.op' \in SearchEvents
      /\ status' = "running"
      /\ manager.distance' = None)
       => /\ manager.window' = manager.window
          /\ manager.oneoff_error_text' = "Not found"]_vars

\* a search has found nothing while the cursor of the history was not on
\* its last entry
WitnessSearchNotFound ==
  /\ manager.op \in SearchEvents
  /\ status = "running"
  /\ manager.distance = None
  /\ manager.oneoff_error_text = "Not found"
  /\ Cursor < Len(Offsets) - 1

\* C27: confirming a new bookmark with a name of more than 50 bytes leaves
\* the bookmarks as they are and sets a one-off text; with a name of at
\* most 50 bytes it stores under the name the offset of the window and the
\* text of the line there, in place of what the name stood for, and leaves
\* all other bookmarks; the window is left as it is either way.
NewBookmarkStoresOrRefuses ==
  [][manager.op' = "NewBookmark"
       => /\ status' = "running"
          /\ manager.window' = manager.window
          /\ manager.oneoff_error_text' # ""
          /\ \/ /\ manager.oneoff_error_text' = "Bookmark name too long"
                /\ manager.bookmarks' = manager.bookmarks
             \/ /\ manager.oneoff_error_text' = "Bookmark saved"
                /\ \E name \in BookmarkNames :
                     /\ Len(name) <= BOOKMARK_NAME_MAX_LEN
                     /\ manager.bookmarks'
                          = {bookmark \in manager.bookmarks :
                               bookmark.name # name}
                            \cup {[name |-> name,
                                   offset |-> manager.window.offset,
                                   line |-> LineBody(document.reader,
                                                   manager.window.offset)]}]_vars

\* a bookmark stands for an offset other than 0 and the window is
\* elsewhere: the name has been stored, and can be stored again
WitnessNewBookmark ==
  /\ manager.op = "NewBookmark"
  /\ status = "running"
  /\ \E bookmark \in manager.bookmarks :
       /\ bookmark.offset > 0
       /\ bookmark.offset = manager.window.offset
       /\ bookmark.line # << >>

\* C28: in normal mode the frame of the current state is rendered before
\* the next event is waited for: whenever the controller waits for an
\* event, the canvas was last filled from the offset the window has now.
FrameRenderedBeforeEvent ==
  (status = "running" /\ manager.pc = "listen")
    => manager.rendered = Some(manager.window.offset)

\* C25: when the slot has pattern_type Regex and a pattern that does not
\* compile, matching the slot against a line, for a search or for
\* highlighting, does not end the program and yields no match: the search
\* is not satisfied by the line and the line gets no scheme.
RegexCompileFailureMatchesNothing ==
  (/\ ActiveSlot(finder).pattern_type = "Regex"
   /\ IsSome(ActiveSlot(finder).pattern)
   /\ ~RegexCompiles(Unwrap(ActiveSlot(finder).pattern)))
    => /\ status = "running"
       /\ canvas.filled => ~canvas.passed

\* the index in content at which the rows of build_chunk begin
RowsBegin(content, drop_first) ==
  IF drop_first THEN Min({i \in 0 .. Len(content) - 1 : content[i + 1] = NL}) + 1
  ELSE 0

\* the indices of the newlines of content from begin on
NewlinesFrom(content, begin) ==
  {i \in begin .. Len(content) - 1 : content[i + 1] = NL}

\* the index one past the last newline of content from begin on
TailBegin(content, begin) ==
  IF NewlinesFrom(content, begin) = {} THEN begin
  ELSE Max(NewlinesFrom(content, begin)) + 1

\* the span that ends with the newline at index nl, without the newline
SpanBefore(content, begin, nl) ==
  Slice(content,
        Max({begin} \cup {i + 1 : i \in {j \in NewlinesFrom(content, begin) :
                                           j < nl}}),
        nl)

\* the newline-terminated spans of content from begin on, in their order
SpansFrom(content, begin) ==
  [k \in 1 .. Cardinality(NewlinesFrom(content, begin)) |->
     SpanBefore(content, begin,
       CHOOSE nl \in NewlinesFrom(content, begin) :
         Cardinality({j \in NewlinesFrom(content, begin) : j < nl}) = k - 1)]

\* the sum of the lengths of the rows
RECURSIVE SumLen(_)
SumLen(rows) == IF rows = << >> THEN 0 ELSE Len(Head(rows)) + SumLen(Tail(rows))

\* the chunk the claim describes for the arguments held in last; the tail is
\* kept when it is not empty and drop_last is false
ChunkAsClaimed(chunk, content, content_offset, begin, tail_kept) ==
  /\ chunk.offset_begin = content_offset + begin
  /\ chunk.rows
       = SpansFrom(content, begin)
           \o (IF tail_kept
               THEN << Slice(content, TailBegin(content, begin), Len(content)) >>
               ELSE << >>)
  /\ chunk.offset_end
       = content_offset + (IF tail_kept THEN Len(content)
                           ELSE TailBegin(content, begin))
  /\ chunk.offset_end - chunk.offset_begin
       = SumLen(chunk.rows) + Len(chunk.rows) - (IF tail_kept THEN 1 ELSE 0)

\* C29: build_chunk(content, content_offset, drop_first, drop_last), for a
\* content with a newline when drop_first is set, returns offset_begin =
\* content_offset, or content_offset + index of the first newline + 1 when
\* drop_first; as rows the newline-terminated spans from there on without
\* their newlines, then the non-empty unterminated tail only when drop_last
\* is false; offset_end = content_offset + the index one past the last byte
\* put into a row or its newline; so offset_end - offset_begin is the sum of
\* the row lengths plus the number of rows, less 1 when a tail was kept.
BuildChunkAsClaimed ==
  (/\ last.op = "build_chunk"
   /\ last.drop_first => NewlinesFrom(last.content, 0) # {})
    => /\ status = "running"
       /\ IsSome(last.chunk)
       /\ ChunkAsClaimed(Unwrap(last.chunk), last.content,
            last.content_offset, RowsBegin(last.content, last.drop_first),
            /\ ~last.drop_last
            /\ TailBegin(last.content,
                         RowsBegin(last.content, last.drop_first))
                 < Len(last.content))

\* a chunk built with drop_first of a content with a first line, two
\* terminated spans after it and a tail, which drop_last has dropped
WitnessBuildChunk ==
  /\ last.op = "build_chunk"
  /\ last.drop_first /\ last.drop_last
  /\ last.content_offset > 0
  /\ IsSome(last.chunk)
  /\ Len(Unwrap(last.chunk).rows) = 2
  /\ Unwrap(last.chunk).offset_begin > last.content_offset + 1
  /\ Unwrap(last.chunk).offset_end < last.content_offset + Len(last.content)

\* the byte offsets the chunks of the document cover
CoveredOffsets(doc) ==
  UNION {doc.chunks[i].offset_begin .. doc.chunks[i].offset_end - 1 :
           i \in DOMAIN doc.chunks}

\* C30: chunks are never evicted: a byte offset that a loaded chunk covers
\* is covered by some chunk after every later operation of the Document.
ChunksNeverEvicted ==
  [][CoveredOffsets(document) \subseteq CoveredOffsets(document')]_vars

\* load_chunk has put a chunk into a list that holds another chunk, loaded
\* before it
WitnessChunksKept ==
  /\ last.op = "load_chunk"
  /\ status = "running"
  /\ IsSome(last.distance)
  /\ Len(document.chunks) >= 2

\* C37: RemoveActiveSlot(d) for a slot d that is not in the active set
\* leaves the whole finder as it was and does not abort, whatever the size
\* of the active set.
RemoveInactiveSlotIsNoOp ==
  [][(/\ event'.type = "RemoveActiveSlot"
      /\ event'.index \notin finder.active_slots)
     => (finder' = finder /\ status' = "running")]_vars

(***************************************************************************)
(* The frames drawn while keys and search prompts change the finder: every *)
(* finder put to attach_render_scheme here is one the keys have produced.  *)
(***************************************************************************)
\* Manager::fill_canvas_and_render for one raw line that passes the
\* advanced actions; the canvas is cleared again when the next frame begins
HighlightLine ==
  /\ status = "running"
  /\ \E line \in Lines :
       /\ can_pass_advance_action(finder, line)
       /\ status' = IF attach_render_scheme(finder, line).hang
                    THEN "hung" ELSE "running"
  /\ UNCHANGED << document, last, finder, finder_event_parser, event,
                  canvas, manager >>

NextHighlight ==
  \/ KeyPress
  \/ SearchEnter
  \/ HighlightLine

SpecHighlight == InitFinder /\ [][NextHighlight]_vars

\* C33: attach_render_scheme(line) terminates for every line and every
\* finder state the keys can produce, a highlighted slot with the empty
\* pattern included.
AttachRenderSchemeTerminates == status # "hung"

(***************************************************************************)
(* Wrap mode: a raw line of the frame is cut into rows of the window's     *)
(* width.                                                                  *)
(***************************************************************************)
\* the widest window
MaxWidth == 3

\* the rows idx, idx + 1, .. of the wrap loop of fill_canvas_and_render
\* (for idx in 0..=line.len() / self.window.width)
RECURSIVE WrapRows(_, _, _)
WrapRows(line_with_render_scheme, width, idx) ==
  IF idx > Len(line_with_render_scheme.content) \div width THEN << >>
  ELSE << substr(line_with_render_scheme,
                 Range(idx * width,
                       MinOf((idx + 1) * width,
                             Len(line_with_render_scheme.content)))) >>
       \o WrapRows(line_with_render_scheme, width, idx + 1)

\* the body area after one raw line in wrap mode
Wrapped(line, width, attached) ==
  /\ status' = IF attached.hang THEN "hung" ELSE "running"
  /\ canvas' = [filled |-> TRUE, line |-> line, width |-> width,
                body_area |-> IF attached.hang THEN << >>
                              ELSE WrapRows(attached.line, width, 0)]

\* Manager::fill_canvas_and_render with context.wrap_lines set, for a
\* frame of one raw line that passes the advanced actions
WrapLine ==
  /\ status = "running"
  /\ \E line \in Lines, width \in 1 .. MaxWidth :
       /\ can_pass_advance_action(finder, line)
       /\ Wrapped(line, width, attach_render_scheme(finder, line))
  /\ UNCHANGED << document, last, finder, finder_event_parser, event,
                  manager >>

NextWrap ==
  \/ SearchEnter
  \/ WrapLine

SpecWrap == InitFinder /\ [][NextWrap]_vars

\* the contents of the rows from k on, one after the other
RECURSIVE RowsContent(_, _)
RowsContent(rows, k) ==
  IF k > Len(rows) THEN << >>
  ELSE rows[k].content \o RowsContent(rows, k + 1)

\* ceil(a / b)
CeilDiv(a, b) == (a + b - 1) \div b

\* C40: in wrap mode a line of length L that passes the filter is emitted,
\* for a window of width W >= 1, as ceil(L / W) rows (one row when L = 0)
\* of at most W bytes each whose contents, one after the other, are the
\* line; a line that is not empty gets no empty row.
WrapEmitsCeilRows ==
  (canvas.filled /\ status = "running") =>
    /\ Len(canvas.body_area) =
         IF Len(canvas.line) = 0 THEN 1
         ELSE CeilDiv(Len(canvas.line), canvas.width)
    /\ RowsContent(canvas.body_area, 1) = canvas.line
    /\ \A k \in 1 .. Len(canvas.body_area) :
         /\ Len(canvas.body_area[k].content) <= canvas.width
         /\ Len(canvas.line) > 0 => Len(canvas.body_area[k].content) > 0

\* the sum of len + 1 over the first min(n, k) full lines from the line
\* start o, k being the number of lines from o up to the last line: these
\* lines are contiguous, so the sum is the distance from o to the start of
\* the line after them
ExpectedDistanceBelow(reader, o, n) ==
  Max({s \in FileLineStarts(reader) :
         /\ s >= o
         /\ Cardinality({t \in FileLineStarts(reader) :
                           o <= t /\ t < s}) <= n}) - o

\* C38: for every line start o and every n,
\* query_distance_to_below_n_lines(o, n) is the sum of len + 1 over the
\* first min(n, k) full lines from o, k being the number of full lines from
\* o up to the last line; o plus the result is a line start not beyond
\* last_line_start_offset(), and the result is 0 when o is
\* last_line_start_offset() or n = 0.
DistanceBelowIsSumOfLines ==
  (/\ last.op = "query_distance_to_below_n_lines"
   /\ last.offset \in FileLineStarts(document.reader)) =>
    /\ status = "running"
    /\ last.distance = Some(ExpectedDistanceBelow(document.reader,
                                                  last.offset,
                                                  last.line_count))
    /\ last.offset + Unwrap(last.distance) \in FileLineStarts(document.reader)
    /\ last.offset + Unwrap(last.distance) <= last_line_start_offset(document)
    /\ (last.offset = last_line_start_offset(document) \/ last.line_count = 0)
         => last.distance = Some(0)

\* the starts of the lines strictly below the line of the window that
\* satisfy the active patterns
MatchingBelow ==
  {s \in FileLineStarts(document.reader) :
     /\ s > manager.window.offset
     /\ can_satisfy_active_search_patterns(finder,
                                           LineBody(document.reader, s))}

\* C39: 'n' (SearchNext) skips the current line: it moves the window to the
\* start of the first line strictly below the current one that satisfies
\* the active patterns, or, when there is no such line, leaves the offset
\* and the history as they are and sets 'Not found'; also with the window
\* on the last line.  Stated for the searches that return.
SearchNextSkipsCurrentLine ==
  [][(manager.op' = "SearchNext" /\ status' = "running")
       => IF MatchingBelow # {}
          THEN manager.window.offset' = Min(MatchingBelow)
          ELSE /\ manager.window' = manager.window
               /\ manager.oneoff_error_text' = "Not found"]_vars

(***************************************************************************)
(* prompt.rs: the text of a prompt and the history of the texts entered.   *)
(* A text is the sequence of the characters typed.                         *)
(***************************************************************************)
\* the longest text typed into a prompt
MaxPromptLen == 1
\* the most entries the history of a prompt gets
MaxPromptHistoryLen == 3

\* the characters typed into a prompt: a digit, which is a key of the
\* finder, and "n", which is a navigation key
PromptChars == {"1", "n"}

PromptTexts == BoundedSeq(PromptChars, MaxPromptLen)

\* Prompt::default
PromptDefault ==
  [prompt_text |-> None, prompt_history |-> << >>, history_index |-> 0]

\* Prompt::start
start(self) ==
  [self EXCEPT !.prompt_text = Some(<< >>),
               !.history_index = Len(self.prompt_history)]

\* a finish that leaves the prompt active
finish_never(self) == self

\* Prompt::finish
finish(self) == [self EXCEPT !.prompt_text = None]

\* Prompt::is_active
is_active(self) == IsSome(self.prompt_text)

\* a push whatever the history ends with
push_history_always(self, prompt) ==
  [self EXCEPT !.prompt_history = Append(@, prompt)]

\* Prompt::push_history
push_history(self, prompt) ==
  IF /\ self.prompt_history # << >>
     /\ self.prompt_history[Len(self.prompt_history)] = prompt
  THEN self
  ELSE [self EXCEPT !.prompt_history = Append(@, prompt)]

\* Prompt::current_one
current_one(self) ==
  IF self.history_index < Len(self.prompt_history)
  THEN self.prompt_history[self.history_index + 1]
  ELSE << >>

\* what a function of the prompt leaves and returns
PromptRet(self, ret) == [prompt |-> self, ret |-> ret]

\* Prompt::previous_one
prompt_previous_one(self) ==
  PromptRet([self EXCEPT !.history_index = SatSub(@, 1)],
            current_one([self EXCEPT !.history_index = SatSub(@, 1)]))

\* Prompt::next_one
prompt_next_one(self) ==
  PromptRet([self EXCEPT
               !.history_index = MinOf(@ + 1, Len(self.prompt_history))],
            current_one([self EXCEPT
               !.history_index = MinOf(@ + 1, Len(self.prompt_history))]))

(***************************************************************************)
(* A Prompt on its own, its functions called as test_prompt_history calls  *)
(* them.                                                                   *)
(***************************************************************************)
InitPrompt ==
  /\ document = new(<< >>, MaxChunkSize).doc
  /\ status = "running"
  /\ last = NoCall
  /\ finder = NoFinder
  /\ finder_event_parser = FinderEventParserDefault
  /\ event = NoEvent
  /\ canvas = NoCanvas
  /\ manager = [prompt |-> PromptDefault, op |-> "default", arg |-> << >>,
                ret |-> << >>, before |-> PromptDefault]

\* the prompt after the call op(arg) that returned ret, and the prompt
\* before it
PromptOp(op, arg, r) ==
  /\ manager' = [prompt |-> r.prompt, op |-> op, arg |-> arg, ret |-> r.ret,
                 before |-> manager.prompt]
  /\ UNCHANGED << document, status, last, finder, finder_event_parser,
                  event, canvas >>

PromptStart ==
  PromptOp("start", << >>, PromptRet(start(manager.prompt), << >>))

PushHistory ==
  /\ Len(manager.prompt.prompt_history) < MaxPromptHistoryLen
  /\ \E prompt \in PromptTexts :
       PromptOp("push_history", prompt,
                PromptRet(push_history(manager.prompt, prompt), << >>))

PromptPreviousOne ==
  PromptOp("previous_one", << >>, prompt_previous_one(manager.prompt))

PromptNextOne ==
  PromptOp("next_one", << >>, prompt_next_one(manager.prompt))

NextPrompt ==
  \/ PromptStart
  \/ PushHistory
  \/ PromptPreviousOne
  \/ PromptNextOne

SpecPrompt == InitPrompt /\ [][NextPrompt]_vars

\* C31: push_history appends the entry unless it equals the most recent
\* entry (one equal to an older entry is appended again); start puts the
\* history index at len(history); previous_one and next_one move the index
\* by one within 0 .. len(history), saturating at both ends, and return the
\* entry at the index, or the empty string when the index is len(history).
PromptHistoryAsClaimed ==
  LET history == manager.prompt.prompt_history
      index == manager.prompt.history_index
      old == manager.before.prompt_history
      old_index == manager.before.history_index
  IN /\ index \in 0 .. Len(history)
     /\ manager.op = "push_history" =>
          /\ history = IF old # << >> /\ old[Len(old)] = manager.arg
                       THEN old ELSE old \o << manager.arg >>
          /\ index = old_index
     /\ manager.op = "start" => (index = Len(history) /\ history = old)
     /\ manager.op = "previous_one" =>
          /\ index = IF old_index = 0 THEN 0 ELSE old_index - 1
          /\ history = old
     /\ manager.op = "next_one" =>
          /\ index = IF old_index = Len(old) THEN old_index ELSE old_index + 1
          /\ history = old
     /\ manager.op \in {"previous_one", "next_one"} =>
          manager.ret = IF index = Len(history) THEN << >>
                        ELSE history[index + 1]

\* an entry equal to an older one, not the most recent, has been appended
WitnessPromptHistory ==
  /\ manager.op = "push_history"
  /\ Len(manager.prompt.prompt_history) = 3
  /\ manager.prompt.prompt_history[1] = manager.arg
  /\ manager.prompt.prompt_history[2] # manager.arg
  /\ manager.prompt.history_index = 1

(***************************************************************************)
(* event_source.rs: the keys pressed, handed to the search prompt while it *)
(* is active, to the bookmark menu while that is active, and else to the   *)
(* parser of the finder keys and the other key bindings.  Of the prompts   *)
(* only the search prompt is opened here: the keys 't', 'j' and 'b' are    *)
(* not among those pressed.                                                *)
(***************************************************************************)
\* the most entries the history of the search prompt gets from the keys
MaxKeysHistoryLen == 2

\* a KeyEvent: code is "Char" with the character c, or "Enter", "Esc",
\* "Backspace", "Up", "Down"; modifiers is "NONE" or "CONTROL"
KeyEvent(code, c, modifiers) == [code |-> code, c |-> c, modifiers |-> modifiers]

\* the keys pressed
KeyEvents ==
  {KeyEvent("Char", c, "NONE") : c \in {"/", "?", "+", "-", "1", "n"}}
  \cup {KeyEvent(code, "", "NONE") :
          code \in {"Enter", "Esc", "Backspace", "Up", "Down"}}
  \cup {KeyEvent("Char", "1", "CONTROL"), KeyEvent("Down", "", "CONTROL")}

\* no key has been pressed yet
NoKey == KeyEvent("none", "", "NONE")

\* an Event: its variant, the variant of the PromptAction or FinderAction
\* it carries, the text of a Content or Enter, the slot of a finder action
\* or the step of a WindowMove, and the direction of a Start or WindowMove
Ev(type, action, text, index) ==
  [type |-> type, action |-> action, text |-> text, index |-> index,
   direction |-> ""]

Directed(ev, direction) == [ev EXCEPT !.direction = direction]

\* what a handler of keys leaves and returns: event is an Option
KeyHandled(panic, self, ev) ==
  [panic |-> panic, self |-> self, event |-> ev]

\* the text without its last character (String::pop)
Pop(text) == IF text = << >> THEN text ELSE SubSeq(text, 1, Len(text) - 1)

\* Prompt::handle_raw_event with the text of previous_one or next_one
HistoryShown(r) ==
  KeyHandled(FALSE, [r.prompt EXCEPT !.prompt_text = Some(r.ret)],
             Some(Ev("Prompt", "Content", r.ret, 0)))

\* Prompt::handle_raw_event; the event is the PromptAction, which the
\* caller wraps
prompt_handle_raw_event(self, key) ==
  IF ~is_active(self) THEN KeyHandled(TRUE, self, None)
  ELSE IF key.modifiers # "NONE" /\ key.modifiers # "SHIFT"
       THEN KeyHandled(FALSE, self, None)
       ELSE CASE key.code = "Char" ->
                   KeyHandled(FALSE,
                     [self EXCEPT !.prompt_text =
                        Some(Append(Unwrap(@), key.c))],
                     Some(Ev("Prompt", "Content",
                             Append(Unwrap(self.prompt_text), key.c), 0)))
              [] key.code = "Backspace" ->
                   KeyHandled(FALSE,
                     [self EXCEPT !.prompt_text = Some(Pop(Unwrap(@)))],
                     Some(Ev("Prompt", "Content",
                             Pop(Unwrap(self.prompt_text)), 0)))
              [] key.code = "Enter" ->
                   KeyHandled(FALSE,
                     finish(push_history(self, Unwrap(self.prompt_text))),
                     Some(Ev("Prompt", "Enter", Unwrap(self.prompt_text), 0)))
              [] key.code = "Esc" ->
                   KeyHandled(FALSE, finish(self),
                              Some(Ev("Prompt", "Cancel", << >>, 0)))
              [] key.code = "Up" -> HistoryShown(prompt_previous_one(self))
              [] key.code = "Down" -> HistoryShown(prompt_next_one(self))
              [] OTHER -> KeyHandled(FALSE, self, None)

(***************************************************************************)
(* bookmark.rs: the bookmark menu as the keys see it (BookMarkMenu) and    *)
(* the store behind it (BookmarkStore).  The bookmarks are a set of        *)
(* records name, offset, line with one record per name; the map iterates   *)
(* them by name.                                                           *)
(***************************************************************************)
\* the characters of the bookmark names and of the filter, in their order;
\* 'g' is also the key that opens the menu
MenuChars == << "a", "g" >>

\* the position of a character in the order of the characters
CharRank(c) == CHOOSE i \in DOMAIN MenuChars : MenuChars[i] = c

\* the order of the strings, which is the order of the keys of the BTreeMap
RECURSIVE NameLess(_, _)
NameLess(a, b) ==
  IF b = << >> THEN FALSE
  ELSE IF a = << >> THEN TRUE
  ELSE IF Head(a) # Head(b) THEN CharRank(Head(a)) < CharRank(Head(b))
  ELSE NameLess(Tail(a), Tail(b))

\* the bookmarks in the order of their names
RECURSIVE ByName(_)
ByName(bookmarks) ==
  IF bookmarks = {} THEN << >>
  ELSE LET first == CHOOSE bookmark \in bookmarks :
                      \A other \in bookmarks \ {bookmark} :
                        NameLess(bookmark.name, other.name)
       IN << first >> \o ByName(bookmarks \ {first})

\* BookmarkStore::default
BookmarkStoreDefault ==
  [bookmarks |-> {}, menu_index |-> None, filtered_bookmarks |-> << >>,
   filter_content |-> << >>]

\* what a function of the store leaves and returns
StoreRet(panic, store, ret) == [panic |-> panic, store |-> store, ret |-> ret]

\* BookmarkStore::load_filtered_bookmarks
load_filtered_bookmarks(store, filter_content) ==
  [store EXCEPT !.filtered_bookmarks =
     ByName({bookmark \in store.bookmarks :
               Contains(bookmark.name, filter_content)})]

\* BookmarkStore::handle_enter_event
handle_enter_event(store) ==
  IF store.filtered_bookmarks = << >> THEN StoreRet(FALSE, store, None)
  ELSE IF \/ ~IsSome(store.menu_index)
          \/ ~(Unwrap(store.menu_index) < Len(store.filtered_bookmarks))
       THEN StoreRet(TRUE, store, None)
       ELSE StoreRet(FALSE, [store EXCEPT !.menu_index = None],
              Some(store.filtered_bookmarks[Unwrap(store.menu_index) + 1]))

\* the index of the first bookmark of the list with the name, as an Option
\* (Iterator::position)
Position(filtered_bookmarks, name) ==
  IF \E i \in DOMAIN filtered_bookmarks : filtered_bookmarks[i].name = name
  THEN Some(Min({i \in DOMAIN filtered_bookmarks :
                   filtered_bookmarks[i].name = name}) - 1)
  ELSE None

\* handle_other_event(Content(filter_content)) once the list is loaded anew;
\* prev_bookmark is the name the cursor was on
Filtered(store, prev_bookmark, filter_content) ==
  [store EXCEPT
     !.menu_index =
       IF IsSome(Position(store.filtered_bookmarks, prev_bookmark))
       THEN Position(store.filtered_bookmarks, prev_bookmark)
       ELSE Some(0),
     !.filter_content = filter_content]

\* BookmarkStore::handle_other_event; action is the variant of the
\* BookmarkMenuAction, an Arrow with its direction, a Content with its text
handle_other_event(store, action) ==
  CASE action.action = "Start" ->
         IF IsSome(store.menu_index) THEN StoreRet(TRUE, store, None)
         ELSE StoreRet(FALSE,
                load_filtered_bookmarks([store EXCEPT !.menu_index = Some(0)],
                                        << >>),
                None)
    [] action.action = "Arrow" ->
         IF store.filtered_bookmarks = << >> THEN StoreRet(FALSE, store, None)
         ELSE IF ~IsSome(store.menu_index) THEN StoreRet(TRUE, store, None)
         ELSE StoreRet(FALSE,
                [store EXCEPT !.menu_index =
                   Some((IF action.direction = "Up"
                         THEN Unwrap(@) + Len(store.filtered_bookmarks) - 1
                         ELSE Unwrap(@) + 1)
                        % Len(store.filtered_bookmarks))],
                None)
    [] action.action = "Content" ->
         IF store.filtered_bookmarks = << >>
         THEN StoreRet(FALSE,
                Filtered(load_filtered_bookmarks(store, action.text),
                         << >>, action.text),
                None)
         ELSE IF \/ ~IsSome(store.menu_index)
                 \/ ~(Unwrap(store.menu_index) < Len(store.filtered_bookmarks))
              THEN StoreRet(TRUE, store, None)
              ELSE StoreRet(FALSE,
                     Filtered(load_filtered_bookmarks(store, action.text),
                              store.filtered_bookmarks[
                                Unwrap(store.menu_index) + 1].name,
                              action.text),
                     None)
    [] action.action = "Cancel" ->
         StoreRet(FALSE, [store EXCEPT !.menu_index = None], None)
    [] OTHER -> StoreRet(TRUE, store, None)

\* BookMarkMenu::default
BookMarkMenuDefault == [active |-> FALSE, filter_content |-> << >>]

\* BookMarkMenu::activate
activate(menu) ==
  IF menu.active THEN KeyHandled(TRUE, menu, None)
  ELSE KeyHandled(FALSE, [menu EXCEPT !.active = TRUE], None)

\* BookMarkMenu::handle_raw_event; the event is the BookmarkMenuAction,
\* which the caller wraps
menu_handle_raw_event(menu, key) ==
  IF ~menu.active THEN KeyHandled(TRUE, menu, None)
  ELSE IF key.modifiers # "NONE" /\ key.modifiers # "SHIFT"
       THEN KeyHandled(FALSE, menu, None)
       ELSE CASE key.code = "Char" ->
                   KeyHandled(FALSE,
                     [menu EXCEPT !.filter_content = Append(@, key.c)],
                     Some(Ev("Menu", "Content",
                             Append(menu.filter_content, key.c), 0)))
              [] key.code = "Backspace" ->
                   KeyHandled(FALSE,
                     [menu EXCEPT !.filter_content = Pop(@)],
                     Some(Ev("Menu", "Content", Pop(menu.filter_content), 0)))
              [] key.code = "Enter" ->
                   KeyHandled(FALSE, [menu EXCEPT !.active = FALSE],
                              Some(Ev("Menu", "Enter", << >>, 0)))
              [] key.code = "Esc" ->
                   KeyHandled(FALSE, [menu EXCEPT !.active = FALSE],
                              Some(Ev("Menu", "Cancel", << >>, 0)))
              [] key.code \in {"Up", "Down"} ->
                   KeyHandled(FALSE, menu,
                     Some(Directed(Ev("Menu", "Arrow", << >>, 0), key.code)))
              [] OTHER -> KeyHandled(FALSE, menu, None)

\* the key as the parser of the finder keys reads it
FinderKey(key) ==
  IF key.modifiers # "NONE" /\ key.modifiers # "SHIFT"
  THEN KeyCode("other", 0)
  ELSE CASE key.code = "Char" /\ key.c = "1" -> KeyCode("digit", 1)
         [] key.code = "Char" /\ key.c \in {"+", "-"} -> KeyCode(key.c, 0)
         [] key.code = "Esc" -> KeyCode("Esc", 0)
         [] OTHER -> KeyCode("other", 0)

\* EventSource::default, with the fields the keys pressed here reach
EventSourceDefault ==
  [search_prompt |-> PromptDefault,
   bookmark_menu |-> BookMarkMenuDefault,
   finder_event_parser |-> FinderEventParserDefault]

\* the event with the PromptAction wrapped as the event of the prompt
\* (.map(Event::Search))
Mapped(ev, type) ==
  IF IsSome(ev) THEN Some([Unwrap(ev) EXCEPT !.type = type]) ELSE None

\* the search prompt has handled the key
SearchPromptHandled(self, r) ==
  KeyHandled(r.panic, [self EXCEPT !.search_prompt = r.self],
             Mapped(r.event, "Search"))

\* the bookmark menu has handled the key
BookmarkMenuHandled(self, r) ==
  KeyHandled(r.panic, [self EXCEPT !.bookmark_menu = r.self],
             Mapped(r.event, "GotoBookmark"))

\* 'g': the menu is activated
MenuActivated(self, r) ==
  KeyHandled(r.panic, [self EXCEPT !.bookmark_menu = r.self],
             Some(Ev("GotoBookmark", "Start", << >>, 0)))

\* the key bindings of handle_key_press after the prompts, the bookmark
\* menu and the parser of the finder keys
KeyBinding(self, key) ==
  IF key.modifiers = "NONE" \/ key.modifiers = "SHIFT"
  THEN CASE key.code = "Char" /\ key.c = "/" ->
              KeyHandled(FALSE,
                [self EXCEPT !.search_prompt = start(@)],
                Some(Directed(Ev("Search", "Start", << >>, 0), "Down")))
         [] key.code = "Char" /\ key.c = "?" ->
              KeyHandled(FALSE,
                [self EXCEPT !.search_prompt = start(@)],
                Some(Directed(Ev("Search", "Start", << >>, 0), "Up")))
         [] key.code = "Char" /\ key.c = "n" ->
              KeyHandled(FALSE, self, Some(Ev("SearchNext", "", << >>, 0)))
         [] key.code = "Char" /\ key.c = "g" ->
              MenuActivated(self, activate(self.bookmark_menu))
         [] key.code \in {"Down", "Up"} ->
              KeyHandled(FALSE, self,
                Some(Directed(Ev("WindowMove", "", << >>, 1), key.code)))
         [] OTHER -> KeyHandled(FALSE, self, None)
  ELSE IF key.modifiers = "CONTROL"
       THEN IF key.code \in {"Down", "Up"}
            THEN KeyHandled(FALSE, self,
              Some(Directed(Ev("WindowMove", "", << >>, 5), key.code)))
            ELSE KeyHandled(FALSE, self, None)
       ELSE KeyHandled(FALSE, self, None)

\* handle_key_press once the parser of the finder keys has read the key
FinderKeyParsed(self, key, parsed) ==
  IF IsSome(parsed.action)
  THEN KeyHandled(FALSE, [self EXCEPT !.finder_event_parser = parsed.parser],
                  Some(Ev("FinderOperation", Unwrap(parsed.action).type,
                          << >>, Unwrap(parsed.action).index)))
  ELSE KeyBinding([self EXCEPT !.finder_event_parser = parsed.parser], key)

\* EventSource::handle_key_press
handle_key_press(self, key) ==
  IF is_active(self.search_prompt)
  THEN SearchPromptHandled(self,
         prompt_handle_raw_event(self.search_prompt, key))
  ELSE IF self.bookmark_menu.active
       THEN BookmarkMenuHandled(self,
              menu_handle_raw_event(self.bookmark_menu, key))
       ELSE FinderKeyParsed(self, key,
              try_parse_raw_event(self.finder_event_parser, FinderKey(key)))

\* the event source as constructed; no key has been pressed
InitKeys ==
  /\ document = new(<< >>, MaxChunkSize).doc
  /\ status = "running"
  /\ last = NoCall
  /\ finder = NoFinder
  /\ finder_event_parser = FinderEventParserDefault
  /\ event = NoEvent
  /\ canvas = NoCanvas
  /\ manager = [search_prompt |-> PromptDefault, key |-> NoKey,
                out |-> None]

\* the key has been handled with outcome r
KeyPressed(key, r) ==
  /\ manager' = [search_prompt |-> r.self.search_prompt, key |-> key,
                 out |-> r.event]
  /\ finder_event_parser' = r.self.finder_event_parser
  /\ status' = IF r.panic THEN "panicked" ELSE "running"

\* the text and the history of the prompt stay within the bounds
WithinPromptBounds(key) ==
  is_active(manager.search_prompt) =>
    /\ key.code = "Char" =>
         /\ key.c \in PromptChars
         /\ Len(Unwrap(manager.search_prompt.prompt_text)) < MaxPromptLen
    /\ key.code = "Enter" =>
         Len(manager.search_prompt.prompt_history) < MaxKeysHistoryLen

\* one key read by wait_for_event
HandleKeyPress ==
  /\ status = "running"
  /\ \E key \in KeyEvents :
       /\ WithinPromptBounds(key)
       /\ KeyPressed(key,
            handle_key_press(
              [EventSourceDefault EXCEPT
                 !.search_prompt = manager.search_prompt,
                 !.finder_event_parser = finder_event_parser],
              key))
  /\ UNCHANGED << document, last, finder, event, canvas >>

NextKeys == HandleKeyPress

SpecKeys == InitKeys /\ [][NextKeys]_vars

\* the text of the search prompt, which is active
PromptText == Unwrap(manager.search_prompt.prompt_text)

\* the key is pressed with no modifier but shift
Plain(key) == key.modifiers \in {"NONE", "SHIFT"}

\* C32: while the search prompt is active every key goes to the prompt and
\* produces only Search events: a character appends to the text and emits
\* Content(text), Backspace removes the last character and emits
\* Content(text), Enter emits Enter(text) and deactivates the prompt, Esc
\* emits Cancel and deactivates it; digits and finder or navigation keys
\* typed meanwhile produce no finder or window event, and a prompt started
\* afterwards begins with the empty text.
SearchPromptTakesEveryKey ==
  [][/\ is_active(manager.search_prompt) =>
          /\ status' = "running"
          /\ finder_event_parser' = finder_event_parser
          /\ IsSome(manager.out') => Unwrap(manager.out').type = "Search"
          /\ (Plain(manager.key') /\ manager.key'.code = "Char") =>
               /\ manager.search_prompt.prompt_text' =
                    Some(PromptText \o << manager.key'.c >>)
               /\ manager.out' =
                    Some(Ev("Search", "Content",
                            PromptText \o << manager.key'.c >>, 0))
          /\ (Plain(manager.key') /\ manager.key'.code = "Backspace") =>
               /\ manager.search_prompt.prompt_text' =
                    Some(IF PromptText = << >> THEN << >>
                         ELSE SubSeq(PromptText, 1, Len(PromptText) - 1))
               /\ manager.out' =
                    Some(Ev("Search", "Content",
                            Unwrap(manager.search_prompt.prompt_text'), 0))
          /\ (Plain(manager.key') /\ manager.key'.code = "Enter") =>
               /\ ~is_active(manager.search_prompt')
               /\ manager.out' = Some(Ev("Search", "Enter", PromptText, 0))
          /\ (Plain(manager.key') /\ manager.key'.code = "Esc") =>
               /\ ~is_active(manager.search_prompt')
               /\ manager.out' = Some(Ev("Search", "Cancel", << >>, 0))
          /\ (Plain(manager.key') /\ manager.key'.code \notin {"Enter", "Esc"})
               => is_active(manager.search_prompt')
     /\ (/\ ~is_active(manager.search_prompt)
         /\ is_active(manager.search_prompt')) =>
          /\ manager.key' \in {KeyEvent("Char", "/", "NONE"),
                               KeyEvent("Char", "?", "NONE")}
          /\ manager.search_prompt.prompt_text' = Some(<< >>)
          /\ Unwrap(manager.out').type = "Search"
          /\ Unwrap(manager.out').action = "Start"]_vars

\* a digit has been typed into a search prompt that was opened after an
\* earlier one had been confirmed with a text, while an add of a finder
\* slot was pending
WitnessSearchPromptKey ==
  /\ is_active(manager.search_prompt)
  /\ manager.search_prompt.prompt_history # << >>
  /\ manager.search_prompt.prompt_history[1] # << >>
  /\ manager.key = KeyEvent("Char", "1", "NONE")
  /\ manager.out = Some(Ev("Search", "Content", << "1" >>, 0))
  /\ finder_event_parser.state = "ParsedAdd"

\* the finder action of the event the key just pressed has produced, or ""
FinderActionOut(self) ==
  IF IsSome(self.out) /\ Unwrap(self.out).type = "FinderOperation"
  THEN Unwrap(self.out).action ELSE ""

\* C36: a digit key d yields AddActiveSlot(d) only when the key immediately
\* before it was '+', RemoveActiveSlot(d) only when the key immediately
\* before it was '-', and SwitchActiveSlot(d) otherwise; Esc right after
\* '+' or '-' cancels the pending add or remove, and a pending add or
\* remove does not survive any other key or a prompt opened in between.
DigitFollowsPlusOrMinus ==
  [][/\ FinderActionOut(manager') = "AddActiveSlot"
          => manager.key = KeyEvent("Char", "+", "NONE")
     /\ FinderActionOut(manager') = "RemoveActiveSlot"
          => manager.key = KeyEvent("Char", "-", "NONE")
     /\ (/\ ~is_active(manager.search_prompt)
         /\ manager.key' = KeyEvent("Char", "1", "NONE")
         /\ manager.key \notin {KeyEvent("Char", "+", "NONE"),
                                KeyEvent("Char", "-", "NONE")})
          => manager.out' = Some(Ev("FinderOperation", "SwitchActiveSlot",
                                    << >>, 1))
     /\ (/\ ~is_active(manager.search_prompt)
         /\ manager.key' = KeyEvent("Esc", "", "NONE")
         /\ finder_event_parser.state # "Normal")
          => /\ FinderActionOut(manager') = "AddOrRemoveActiveSlotCancel"
             /\ finder_event_parser.state' = "Normal"]_vars

(***************************************************************************)
(* The bookmark menu under keys: the keys go through handle_key_press, the *)
(* GotoBookmark events they produce through Manager::on_bookmark_menu_event*)
(* to the store.  Bookmarks are saved, by the prompt of 'b', while the     *)
(* menu is closed for the keys.  The window is at offset 0 of an empty     *)
(* file, so every bookmark holds that offset and the empty line.           *)
(***************************************************************************)
\* the longest name of a bookmark
MaxNameLen == 1
\* the most bookmarks stored
MaxBookmarks == 2
\* the longest filter typed into the menu
MaxFilterLen == 2

MenuNames == BoundedSeq({MenuChars[i] : i \in DOMAIN MenuChars}, MaxNameLen)

\* the keys pressed
MenuKeyEvents ==
  {KeyEvent("Char", MenuChars[i], "NONE") : i \in DOMAIN MenuChars}
  \cup {KeyEvent(code, "", "NONE") :
          code \in {"Enter", "Esc", "Backspace", "Up", "Down"}}

\* Manager::on_bookmark_menu_event on the store; the jump of the window to
\* the bookmark that Enter returns is left out
MenuEventHandled(store, action) ==
  IF action.action = "Enter" THEN handle_enter_event(store)
  ELSE handle_other_event(store, action)

\* listen_and_dispatch_event for the event, an Option, of a key
MenuDispatched(store, ev) ==
  IF IsSome(ev) /\ Unwrap(ev).type = "GotoBookmark"
  THEN MenuEventHandled(store, Unwrap(ev))
  ELSE StoreRet(FALSE, store, None)

\* the event source and the store as constructed
InitMenu ==
  /\ document = new(<< >>, MaxChunkSize).doc
  /\ status = "running"
  /\ last = NoCall
  /\ finder = NoFinder
  /\ finder_event_parser = FinderEventParserDefault
  /\ event = NoEvent
  /\ canvas = NoCanvas
  /\ manager = [bookmark_menu |-> BookMarkMenuDefault,
                bookmark_store |-> BookmarkStoreDefault,
                key |-> NoKey, out |-> None]

\* the key has been handled with outcome r and its event with outcome
\* handled
MenuKeyPressed(key, r, handled) ==
  /\ manager' = [bookmark_menu |-> r.self.bookmark_menu,
                 bookmark_store |-> handled.store,
                 key |-> key, out |-> r.event]
  /\ finder_event_parser' = r.self.finder_event_parser
  /\ status' = IF r.panic \/ handled.panic THEN "panicked" ELSE "running"

\* the key as handle_key_press handles it with the menu of the state
MenuKeyHandled(key) ==
  handle_key_press([EventSourceDefault EXCEPT
                      !.bookmark_menu = manager.bookmark_menu,
                      !.finder_event_parser = finder_event_parser],
                   key)

\* one key read by wait_for_event, and its event dispatched
MenuKeyPress ==
  /\ status = "running"
  /\ \E key \in MenuKeyEvents :
       /\ (manager.bookmark_menu.active /\ key.code = "Char")
            => Len(manager.bookmark_menu.filter_content) < MaxFilterLen
       /\ MenuKeyPressed(key, MenuKeyHandled(key),
            MenuDispatched(manager.bookmark_store, MenuKeyHandled(key).event))
  /\ UNCHANGED << document, last, finder, event, canvas >>

\* Manager::on_new_bookmark_event(Enter(content)) at the end of the prompt
\* of 'b', which the keys open while the menu is closed
SaveBookmark ==
  /\ status = "running"
  /\ ~manager.bookmark_menu.active
  /\ \E name \in MenuNames :
       /\ Cardinality(new_bookmark(manager.bookmark_store.bookmarks,
                                   name, 0, << >>)) <= MaxBookmarks
       /\ manager' =
            [manager EXCEPT
               !.bookmark_store.bookmarks = new_bookmark(@, name, 0, << >>),
               !.key = KeyEvent("Enter", "", "NONE"),
               !.out = Some(Ev("NewBookmark", "Enter", name, 0))]
  /\ UNCHANGED << document, status, last, finder, finder_event_parser,
                  event, canvas >>

NextMenu ==
  \/ MenuKeyPress
  \/ SaveBookmark

SpecMenu == InitMenu /\ [][NextMenu]_vars

\* C34: after every key event the flag of the menu on the input side
\* (BookMarkMenu.active) and that of the store (BookmarkStore.is_active())
\* agree; Enter closes the menu on both sides also when the filtered list
\* is empty, so that 'g' never fails the assertion of Start that the menu
\* is closed.
MenuFlagsAgree ==
  /\ status # "panicked"
  /\ manager.bookmark_menu.active = IsSome(manager.bookmark_store.menu_index)

\* C35: whenever the bookmark menu is open, the filtered bookmarks listed
\* are exactly the stored bookmarks whose name contains the filter text,
\* the filter text of the key handler and that of the store are the same
\* string and the one the list was built with, also after the menu was
\* closed with a filter and opened again; the index of the menu is below
\* the length of the list when the list is not empty.
MenuListsFilteredBookmarks ==
  (manager.bookmark_menu.active /\ status = "running") =>
    /\ manager.bookmark_store.filter_content
         = manager.bookmark_menu.filter_content
    /\ manager.bookmark_store.filtered_bookmarks
         = ByName({bookmark \in manager.bookmark_store.bookmarks :
                     Contains(bookmark.name,
                              manager.bookmark_menu.filter_content)})
    /\ manager.bookmark_store.filtered_bookmarks # << >>
         => /\ IsSome(manager.bookmark_store.menu_index)
            /\ Unwrap(manager.bookmark_store.menu_index)
                 < Len(manager.bookmark_store.filtered_bookmarks)

====
